---- MODULE Spec2Model ----
(***************************************************************************)
(* chatsrv: the server actor (chatsrv.go, client.go command handlers),     *)
(* the per-connection Client (client.go) and the protocol handler chain    *)
(* (client-handlers.go), modelled as one state machine.                    *)
(*                                                                         *)
(* Strings are sequences of one-character strings, so that ToLower, the    *)
(* letters/digits check and the graphic filter are computed, not assumed.  *)
(* A channel of a session is named by the session that made it.            *)
(***************************************************************************)
EXTENDS Integers, Sequences, FiniteSets, TLC

\* ------------------------------------------------------------------ bounds
\* capacity of server.in and of Client.Send in the model
InCap == 2
SendCap == 1
\* config.MessageLineLimit
MessageLineLimit == 2
\* lines the first peer sends in Spec
MaxLines == 3
\* lines the first peer sends in SpecRename
RenameLines == 5
\* Stop calls one task makes in SpecStop
MaxStopCalls == 2
\* commands handled before the one SpecCmd looks at
SetupLen == 4
\* lines of text the peer sends in SpecPaste
PasteLines == 3
\* lines the peer sends back to back in SpecBurst
BurstLines == 2
\* lines the peer sends in SpecRejoin
RejoinLines == 4
\* lines each of the two peers sends in SpecTakeover
TakeoverLines == 2
\* buffers put into Client.Send in SpecWriter
MaxBuffers == 3
\* lines the peer sends in SpecFlush
FlushLines == 3
\* lines the peer sends in SpecNames
NameLines == 2
\* lines the peer sends in SpecLost
LostLines == 3

\* the ServerConfig of the server under study
ServerConfig == [MessageLineLimit |-> MessageLineLimit]

Sessions == {1, 2, 3}
Nil == 0

\* ----------------------------------------------------------------- strings
Empty == << >>
Letters == {"a", "b", "c", "A", "B", "C", "r", "q", "m"}
Digits == {"0", "1"}

IsLetter(ch) == ch \in Letters
IsDigit(ch) == ch \in Digits
\* unicode.IsGraphic: "^" stands for a control character
IsGraphic(ch) == ch # "^"

LowerChar(ch) ==
  CASE ch = "A" -> "a"
    [] ch = "B" -> "b"
    [] ch = "C" -> "c"
    [] OTHER -> ch

ToLower(str) == [i \in 1..Len(str) |-> LowerChar(str[i])]

\* the loop "for _, r := range name { if !IsLetter(r) && !IsDigit(r) ... }"
OnlyLettersDigits(str) == \A i \in 1..Len(str) : IsLetter(str[i]) \/ IsDigit(str[i])

\* strings.Map keeping the graphic runes
GraphicOnly(str) == SelectSeq(str, IsGraphic)

\* strings.Join(args, " ") == ""
JoinIsEmpty(args) == \A i \in 1..Len(args) : (args[i] = Empty /\ Len(args) = 1)

\* ------------------------------------------------------------------- maps
Put(f, k, v) == [x \in (DOMAIN f) \cup {k} |-> IF x = k THEN v ELSE f[x]]
Del(f, k) == [x \in (DOMAIN f) \ {k} |-> f[x]]
\* a Go map read: the zero value when the key is absent
Get(f, k, zero) == IF k \in DOMAIN f THEN f[k] ELSE zero
EmptyMap == [x \in {} |-> Nil]

\* ------------------------------------------------------- the actor's steps
\* A command handler is a straight line of map updates, context updates,
\* channel sends and channel closes.  Only a send can block, so a handler is
\* computed as the sequence of its steps and the actor runs it up to the
\* next send.  S is the record of the four server maps.
St(S) == [t |-> "st", S |-> S, ch |-> Nil, msg |-> << >>, to |-> {}, nick |-> Empty]
Snd(ch, msg) == [t |-> "send", S |-> Nil, ch |-> ch, msg |-> msg, to |-> {}, nick |-> Empty]
Cls(ch) == [t |-> "close", S |-> Nil, ch |-> ch, msg |-> << >>, to |-> {}, nick |-> Empty]
SetNick(cl, nick) == [t |-> "ctx", S |-> Nil, ch |-> cl, msg |-> << >>, to |-> {}, nick |-> nick]
Seen(cl) == [t |-> "seen", S |-> Nil, ch |-> cl, msg |-> << >>, to |-> {}, nick |-> Empty]
\* one range loop of sayToRoom: the recipients still to be served
Bcast(to, msg) == [t |-> "bcast", S |-> Nil, ch |-> Nil, msg |-> msg, to |-> to, nick |-> Empty]

room(creater, name, topic, roomPass) ==
  [creater |-> creater, mods |-> {}, users |-> {}, name |-> name,
   topic |-> topic, roomPass |-> roomPass]

Recipients(S, nicks) ==
  {<<n, S.userResponseChan[n]>> : n \in {x \in nicks : Get(S.userResponseChan, x, Nil) # Nil}}

sayToRoom(S, roomName, message) ==
  IF ToLower(roomName) \notin DOMAIN S.rooms
  THEN [err |-> TRUE, steps |-> << >>]
  ELSE LET r == S.rooms[ToLower(roomName)]
       IN [err |-> FALSE,
           steps |-> << Bcast(Recipients(S, r.mods), message),
                        Bcast(Recipients(S, r.users), message) >>]

leaveRoomKeepingEmpty(S, nick, roomName, reason) ==
  IF ToLower(roomName) \notin DOMAIN S.rooms
  THEN [err |-> TRUE, steps |-> << >>, S |-> S]
  ELSE LET key == ToLower(roomName)
           r1 == [S.rooms[key] EXCEPT !.mods = @ \ {nick}, !.users = @ \ {nick}]
           S1 == [S EXCEPT !.rooms = Put(@, key, r1),
                           !.userActiveRoom = Del(@, nick)]
           say == sayToRoom(S1, roomName, <<"has left the room", nick, reason>>)
       IN [err |-> FALSE, steps |-> <<St(S1)>> \o say.steps, S |-> S1]

leaveRoom(S, nick, roomName, reason) ==
  IF ToLower(roomName) \notin DOMAIN S.rooms
  THEN [err |-> TRUE, steps |-> << >>, S |-> S]
  ELSE LET key == ToLower(roomName)
           r1 == [S.rooms[key] EXCEPT !.mods = @ \ {nick}, !.users = @ \ {nick}]
           S1 == [S EXCEPT !.rooms = Put(@, key, r1),
                           !.userActiveRoom = Del(@, nick)]
           say == sayToRoom(S1, roomName, <<"has left the room", nick, reason>>)
           S2 == IF Cardinality(r1.mods) + Cardinality(r1.users) = 0
                 THEN [S1 EXCEPT !.rooms = Del(@, key)]
                 ELSE S1
       IN [err |-> FALSE, steps |-> <<St(S1)>> \o say.steps \o <<St(S2)>>, S |-> S2]

\* cmdAdduser looking the nick up as it is spelled
cmdAdduserExact(S, c) ==
  IF c.nick \in DOMAIN S.clients
  THEN << Snd(c.responseChan, <<"That nick is already taken.">>), Cls(c.responseChan) >>
  ELSE << St([S EXCEPT !.clients = Put(@, ToLower(c.nick), c.client),
                       !.userResponseChan = Put(@, c.nick, c.responseChan)]),
          Snd(c.responseChan, <<"Welcome", c.nick>>) >>

cmdAdduser(S, c) ==
  IF ToLower(c.nick) \in DOMAIN S.clients
  THEN << Snd(c.responseChan, <<"That nick is already taken.">>), Cls(c.responseChan) >>
  ELSE << St([S EXCEPT !.clients = Put(@, ToLower(c.nick), c.client),
                       !.userResponseChan = Put(@, c.nick, c.responseChan)]),
          Snd(c.responseChan, <<"Welcome", c.nick>>) >>

cmdRmuser(S, c) ==
  IF ToLower(c.nick) \notin DOMAIN S.clients
  THEN << Snd(c.responseChan, <<"That user doesn't exist">>) >>
  ELSE LET reason == IF JoinIsEmpty(c.args) THEN <<"User disconnected">> ELSE c.args
           roomName == Get(S.userActiveRoom, c.nick, Empty)
           lv == IF roomName # Empty
                 THEN leaveRoom(S, c.nick, roomName, reason)
                 ELSE [err |-> FALSE, steps |-> << >>, S |-> S]
           S3 == [lv.S EXCEPT !.clients = Del(@, ToLower(c.nick)),
                              !.userResponseChan = Del(@, c.nick)]
       IN lv.steps \o << St(S3), Cls(c.responseChan) >>

cmdSay(S, c) ==
  IF Len(c.args) < 2
  THEN << Snd(c.responseChan, <<"You must specify a room to say something to.">>) >>
  ELSE LET say == sayToRoom(S, c.args[1], <<"says", c.nick, Tail(c.args)>>)
       IN IF say.err
          THEN << Snd(c.responseChan, <<"Room doesn't exist">>) >>
          ELSE say.steps

cmdUsers(S, c) ==
  IF DOMAIN S.clients = {}
  THEN << Snd(c.responseChan, <<"Nobody is logged on.">>) >>
  ELSE << Snd(c.responseChan, <<"User Room Last seen", DOMAIN S.clients>>) >>

cmdRooms(S, c) ==
  IF DOMAIN S.rooms = {}
  THEN << Snd(c.responseChan, <<"There are no rooms.">>) >>
  ELSE << Snd(c.responseChan, <<"Rooms:", DOMAIN S.rooms>>) >>

cmdCreate(S, c) ==
  IF Len(c.args) < 1
  THEN << Snd(c.responseChan, <<"Use /create <name> [<topic> [<roompass>]]">>) >>
  ELSE LET name == c.args[1]
           topic == IF Len(c.args) >= 2 THEN c.args[2] ELSE Empty
           roomPass == IF Len(c.args) >= 3 THEN c.args[3] ELSE Empty
       IN IF ~OnlyLettersDigits(name)
          THEN << Snd(c.responseChan, <<"Room names can contain only letters and numbers">>) >>
          ELSE IF ToLower(name) \in DOMAIN S.rooms
          THEN << Snd(c.responseChan, <<"That room already exists">>) >>
          ELSE LET hasOld == c.nick \in DOMAIN S.userActiveRoom
                   lv == IF hasOld
                         THEN leaveRoom(S, c.nick, S.userActiveRoom[c.nick], Empty)
                         ELSE [err |-> FALSE, steps |-> << >>, S |-> S]
                   newRoom == [room(c.nick, name, topic, roomPass) EXCEPT !.mods = {c.nick}]
                   S2 == [lv.S EXCEPT !.rooms = Put(@, ToLower(name), newRoom),
                                      !.userActiveRoom = Put(@, c.nick, name)]
               IN IF lv.err
                  THEN << Snd(c.responseChan, <<"Error leaving old room">>) >>
                  ELSE lv.steps \o << St(S2), Snd(c.responseChan, <<"Joined", name, topic>>) >>

\* cmdJoin leaving the old room before it has looked at the password
cmdJoinLeavingFirst(S, c) ==
  IF Len(c.args) < 1
  THEN << Snd(c.responseChan, <<"Which room do you want to join?">>) >>
  ELSE LET roomName == c.args[1]
           roomPass == IF Len(c.args) >= 2 THEN c.args[2] ELSE Empty
           key == ToLower(roomName)
       IN IF key \notin DOMAIN S.rooms
          THEN << Snd(c.responseChan, <<"That room doesn't exist">>) >>
          ELSE LET r == S.rooms[key]
               IN IF c.nick \in r.mods
                  THEN << Snd(c.responseChan, <<"You are already in that room as a moderator">>) >>
                  ELSE IF c.nick \in r.users
                  THEN << Snd(c.responseChan, <<"You are already in that room">>) >>
                  ELSE LET hasOld == c.nick \in DOMAIN S.userActiveRoom
                           lv == IF hasOld
                                 THEN leaveRoom(S, c.nick, S.userActiveRoom[c.nick], Empty)
                                 ELSE [err |-> FALSE, steps |-> << >>, S |-> S]
                           \* "room" is the pointer taken before leaveRoom ran
                           S2 == [lv.S EXCEPT
                                   !.rooms = IF key \in DOMAIN @
                                             THEN [@ EXCEPT ![key].users = @ \cup {c.nick}]
                                             ELSE @,
                                   !.userActiveRoom = Put(@, c.nick, r.name)]
                           say == sayToRoom(S2, roomName, <<"has joined the room", c.nick>>)
                           S3 == [S2 EXCEPT
                                   !.rooms = IF key \in DOMAIN @
                                             THEN [@ EXCEPT ![key].users = @ \ {c.nick}]
                                             ELSE @,
                                   !.userActiveRoom = Del(@, c.nick)]
                       IN IF lv.err
                          THEN << Snd(c.responseChan, <<"Error leaving old room">>) >>
                          ELSE IF r.roomPass # Empty /\ roomPass = Empty
                          THEN lv.steps \o << Snd(c.responseChan, <<"That room is private.">>) >>
                          ELSE IF r.roomPass # Empty /\ r.roomPass # roomPass
                          THEN lv.steps \o << Snd(c.responseChan, <<"Wrong password.">>) >>
                          ELSE IF say.err
                          THEN lv.steps \o << St(S2),
                                  Snd(c.responseChan, <<"Error while joining room">>), St(S3) >>
                          ELSE lv.steps \o <<St(S2)>> \o say.steps \o
                                  << Snd(c.responseChan, <<"Joined", r.name, r.topic>>) >>

cmdJoin(S, c) ==
  IF Len(c.args) < 1
  THEN << Snd(c.responseChan, <<"Which room do you want to join?">>) >>
  ELSE LET roomName == c.args[1]
           roomPass == IF Len(c.args) >= 2 THEN c.args[2] ELSE Empty
           key == ToLower(roomName)
       IN IF key \notin DOMAIN S.rooms
          THEN << Snd(c.responseChan, <<"That room doesn't exist">>) >>
          ELSE LET r == S.rooms[key]
               IN IF c.nick \in r.mods
                  THEN << Snd(c.responseChan, <<"You are already in that room as a moderator">>) >>
                  ELSE IF c.nick \in r.users
                  THEN << Snd(c.responseChan, <<"You are already in that room">>) >>
                  ELSE IF r.roomPass # Empty /\ roomPass = Empty
                  THEN << Snd(c.responseChan, <<"That room is private.">>) >>
                  ELSE IF r.roomPass # Empty /\ r.roomPass # roomPass
                  THEN << Snd(c.responseChan, <<"Wrong password.">>) >>
                  ELSE LET hasOld == c.nick \in DOMAIN S.userActiveRoom
                           lv == IF hasOld
                                 THEN leaveRoom(S, c.nick, S.userActiveRoom[c.nick], Empty)
                                 ELSE [err |-> FALSE, steps |-> << >>, S |-> S]
                           \* "room" is the pointer taken before leaveRoom ran
                           S2 == [lv.S EXCEPT
                                   !.rooms = IF key \in DOMAIN @
                                             THEN [@ EXCEPT ![key].users = @ \cup {c.nick}]
                                             ELSE @,
                                   !.userActiveRoom = Put(@, c.nick, r.name)]
                           say == sayToRoom(S2, roomName, <<"has joined the room", c.nick>>)
                           S3 == [S2 EXCEPT
                                   !.rooms = IF key \in DOMAIN @
                                             THEN [@ EXCEPT ![key].users = @ \ {c.nick}]
                                             ELSE @,
                                   !.userActiveRoom = Del(@, c.nick)]
                       IN IF lv.err
                          THEN << Snd(c.responseChan, <<"Error leaving old room">>) >>
                          ELSE IF say.err
                          THEN lv.steps \o << St(S2),
                                  Snd(c.responseChan, <<"Error while joining room">>), St(S3) >>
                          ELSE lv.steps \o <<St(S2)>> \o say.steps \o
                                  << Snd(c.responseChan, <<"Joined", r.name, r.topic>>) >>

cmdLeave(S, c) ==
  IF c.nick \notin DOMAIN S.userActiveRoom
  THEN << Snd(c.responseChan, <<"You aren't in a room">>) >>
  ELSE LET roomName == S.userActiveRoom[c.nick]
           lv == leaveRoom(S, c.nick, roomName, c.args)
       IN IF lv.err
          THEN << Snd(c.responseChan, <<"Error leaving room">>) >>
          ELSE lv.steps \o << Snd(c.responseChan, <<"Left", roomName>>) >>

cmdQuit(S, c) ==
  LET reason == IF Len(c.args) = 0 THEN << <<"User quit">> >> ELSE << <<"User quit:">> >> \o c.args
  IN cmdRmuser(S, [c EXCEPT !.args = reason])

cmdWhois(S, c) ==
  LET nick == IF Len(c.args) >= 1 THEN c.args[1] ELSE c.nick
  IN IF ToLower(nick) \notin DOMAIN S.clients
     THEN << Snd(c.responseChan, <<"That user doesn't exist.">>) >>
     ELSE << Snd(c.responseChan, <<"User", S.clients[ToLower(nick)]>>) >>

cmdNick(S, c) ==
  IF Len(c.args) < 1
  THEN << Snd(c.responseChan, <<"What do you want to change your nick to?">>) >>
  ELSE LET nick == c.args[1]
       IN IF ~OnlyLettersDigits(nick)
          THEN << Snd(c.responseChan, <<"Nicks can contain only letters and numbers">>) >>
          ELSE IF ToLower(nick) \in DOMAIN S.clients
          THEN << Snd(c.responseChan, <<"That nick is already taken.">>) >>
          ELSE LET S1 == [S EXCEPT
                           !.clients = Del(Put(@, ToLower(nick), c.client), ToLower(c.nick)),
                           !.userResponseChan = Del(Put(@, nick, c.responseChan), c.nick)]
                   roomName == Get(S.userActiveRoom, c.nick, Empty)
                   key == ToLower(roomName)
                   rekey(r) == [r EXCEPT
                      !.mods = IF c.nick \in @ THEN (@ \ {c.nick}) \cup {nick} ELSE @,
                      !.users = IF c.nick \in @ THEN (@ \ {c.nick}) \cup {nick} ELSE @,
                      !.creater = IF @ = c.nick THEN nick ELSE @]
                   S2 == [S1 EXCEPT
                           !.userActiveRoom = Put(@, nick, roomName),
                           !.rooms = IF key \in DOMAIN @
                                     THEN [@ EXCEPT ![key] = rekey(@)]
                                     ELSE @]
               IN IF roomName # Empty
                  THEN << St(S1), SetNick(c.client, nick), St(S2) >> \o
                       sayToRoom(S2, roomName, <<"is now known as", c.nick, nick>>).steps
                  ELSE << St(S1), SetNick(c.client, nick),
                          Snd(c.responseChan, <<"You are now known as", nick>>) >>

cmdMe(S, c) ==
  IF Len(c.args) < 1
  THEN << Snd(c.responseChan, <<"Try something like /me sits down">>) >>
  ELSE IF c.nick \notin DOMAIN S.userActiveRoom
  THEN << Snd(c.responseChan, <<"You must be in a room to do that.">>) >>
  ELSE sayToRoom(S, S.userActiveRoom[c.nick], <<"me", c.nick, c.args>>).steps

\* the two command tables of init()
internalCommands == {"adduser", "rmuser", "say"}
commands == {"users", "rooms", "create", "join", "leave", "quit", "whois", "nick", "me"}

Dispatch(name, S, c) ==
  CASE name = "adduser" -> cmdAdduser(S, c)
    [] name = "rmuser" -> cmdRmuser(S, c)
    [] name = "say" -> cmdSay(S, c)
    [] name = "users" -> cmdUsers(S, c)
    [] name = "rooms" -> cmdRooms(S, c)
    [] name = "create" -> cmdCreate(S, c)
    [] name = "join" -> cmdJoin(S, c)
    [] name = "leave" -> cmdLeave(S, c)
    [] name = "quit" -> cmdQuit(S, c)
    [] name = "whois" -> cmdWhois(S, c)
    [] name = "nick" -> cmdNick(S, c)
    [] name = "me" -> cmdMe(S, c)

\* handleCommand up to the call of the handler: the checks that drop an
\* envelope, then the lookup in internalCommands and commands
Malformed(c) == c.nick = Empty \/ c.client = Nil \/ c.responseChan = Nil

\* handleCommand looking into internalCommands whoever sent the envelope
handleCommandTrusting(S, c) ==
  IF Malformed(c) THEN << >>
  ELSE <<Seen(c.client)>> \o
       (IF c.command = ""
        THEN << Snd(c.responseChan, <<"No command specified">>) >>
        ELSE IF c.command \in internalCommands \cup commands
        THEN Dispatch(c.command, S, c)
        ELSE << Snd(c.responseChan, <<"Invalid command", c.command>>) >>)

handleCommand(S, c) ==
  IF Malformed(c) THEN << >>
  ELSE <<Seen(c.client)>> \o
       (IF c.command = ""
        THEN << Snd(c.responseChan, <<"No command specified">>) >>
        ELSE IF ~c.userInitiated /\ c.command \in internalCommands
        THEN Dispatch(c.command, S, c)
        ELSE IF c.command \in commands
        THEN Dispatch(c.command, S, c)
        ELSE << Snd(c.responseChan, <<"Invalid command", c.command>>) >>)

\* ------------------------------------------------------------------ state
VARIABLES
  rooms, clients, userActiveRoom, userResponseChan, \* server: the four maps
  in,            \* server.in, the command queue
  todo,          \* the steps left of the command the actor is handling
  cur,           \* the command the actor dequeued last
  lastResult,    \* how handleCommand ended last: done, dropped, panic, busy
  context,       \* Client.context: nick and last_seen of every session
  respChan,      \* responseChan of every session: none, open, closed
  hpc,           \* where the handler chain of a session stands
  hq,            \* the blocking operations left of the handler's iteration
  hnick,         \* the handler's local variable nick
  message,       \* message[:messageLineNumber]
  timer,         \* messagePasteTimer is armed or has fired unread
  exitReason,    \* what the handler chain returns, for the chat handler once
                 \* its drain ends
  Send,          \* Client.Send
  stopped, stoppedReason, sendCloses, doneCloses, \* Client.Stop
  stoppedLock, stopPc, stopArg, stopCalls,        \* Stop, statement by statement
  reader, writer, \* Client.receive and Client.send: run or done
  budget, alphabet, hangup, \* the peer: lines it may still send, may it hang up
  crashed,       \* the panic that ended the process, "" while it runs
  mapAccess,     \* the tasks that have read or written the server maps
  accepted,      \* the sessions whose adduser the server accepted
  observing,     \* whether the four histories below are kept
  before,        \* the server maps and channels when cur was dequeued
  delivered,     \* <<session, message>> sent on response channels for cur
  posted,        \* the commands the handlers have put into server.in
  heard,         \* the lines and timer expiries the chat loops have taken
  data,          \* Client.send: what is left to write of the buffer it took
  rw,            \* the bytes client.rw has accepted
  rwCloses,      \* how often client.rw.Close() was called
  queued,        \* the buffers that were put into Client.Send
  config         \* server.config

srvVars == <<rooms, clients, userActiveRoom, userResponseChan>>
actorVars == <<in, todo, cur, lastResult>>
hVars == <<hpc, hq, hnick, message, timer, exitReason>>
stopVars == <<stopped, stoppedReason, sendCloses, doneCloses>>
lockVars == <<stoppedLock, stopPc, stopArg, stopCalls>>
writeVars == <<data, rw, rwCloses, queued>>
ghostVars == <<accepted, observing, before, delivered, posted, heard>>
peerVars == <<budget, alphabet, hangup>>
vars == <<rooms, clients, userActiveRoom, userResponseChan, in, todo, cur, lastResult,
          context, respChan, hpc, hq, hnick, message, timer, exitReason, Send,
          stopped, stoppedReason, sendCloses, doneCloses,
          stoppedLock, stopPc, stopArg, stopCalls, reader, writer,
          budget, alphabet, hangup, crashed, mapAccess,
          accepted, observing, before, delivered, posted, heard,
          data, rw, rwCloses, queued, config>>

ServerState == [rooms |-> rooms, clients |-> clients,
                userActiveRoom |-> userActiveRoom, userResponseChan |-> userResponseChan]

\* what a command finds when handleCommand is entered
Snapshot == [S |-> ServerState, chans |-> respChan, context |-> context]

\* ------------------------------------------------------------- the peer
\* A chunk the reader scanned.  A command line stands for the text
\* "/name arg ..." and carries the tokens shlex.Split gives for it.
Text(str) == [kind |-> "text", text |-> str, name |-> "", args |-> << >>]
Command(name, args) == [kind |-> "cmd", text |-> <<"/">>, name |-> name, args |-> args]
\* a command line shlex.Split fails on, leaving no token
BadCommand == [kind |-> "bad", text |-> <<"/">>, name |-> "", args |-> << >>]

serverCommand(nick, client, ch, command, args, userInitiated) ==
  [nick |-> nick, client |-> client, responseChan |-> ch, command |-> command,
   args |-> args, userInitiated |-> userInitiated]

NoCommand == serverCommand(Empty, Nil, Nil, "", << >>, FALSE)

\* ------------------------------------------------------------- Client.Stop
\* Stop runs under stoppedLock and never blocks inside it, so where the
\* callers are modelled together with the rest of the system it is one step.
Stop(s, reason) ==
  IF stopped[s]
  THEN UNCHANGED stopVars
  ELSE /\ stoppedReason' = [stoppedReason EXCEPT ![s] = reason]
       /\ doneCloses' = [doneCloses EXCEPT ![s] = @ + 1]
       /\ sendCloses' = [sendCloses EXCEPT ![s] = @ + 1]
       /\ stopped' = [stopped EXCEPT ![s] = TRUE]

SendClosed(s) == sendCloses[s] > 0
DoneClosed(s) == doneCloses[s] > 0

\* Stop statement by statement, for the tasks of one client that call it:
\* receive() at client.go:121 and :123, send() at :84, handle() at :132
Tasks == {"reader", "writer", "handler"}
StopSession == 1

StopReasons(t) ==
  CASE t = "reader" -> {"Receive error", "Client disconnected"}
    [] t = "writer" -> {"Send error"}
    [] t = "handler" -> {"User disconnected", "Disconnected by server"}

\* a mutex that excludes nobody
CanLockAlways(s) == TRUE
\* client.stoppedLock.Lock() returns
CanLock(s) == stoppedLock[s] = "free"

\* one statement of Stop: the process runs, task t moves on to pc, and
\* nothing but the client's stop fields changes
StopGoto(t, pc) ==
  /\ crashed = ""
  /\ stopPc' = [stopPc EXCEPT ![t] = pc]
  /\ UNCHANGED <<srvVars, actorVars, context, respChan, hVars, Send, reader, writer,
                 peerVars, mapAccess, ghostVars, writeVars, config>>

StopCall(t) ==
  /\ stopPc[t] = "idle"
  /\ stopCalls[t] < MaxStopCalls
  /\ \E reason \in StopReasons(t) : stopArg' = [stopArg EXCEPT ![t] = reason]
  /\ stopCalls' = [stopCalls EXCEPT ![t] = @ + 1]
  /\ StopGoto(t, "lock")
  /\ UNCHANGED <<stopVars, stoppedLock, crashed>>

StopLock(t) ==
  /\ stopPc[t] = "lock"
  /\ CanLock(StopSession)
  /\ stoppedLock' = [stoppedLock EXCEPT ![StopSession] = t]
  /\ StopGoto(t, "check")
  /\ UNCHANGED <<stopVars, stopArg, stopCalls, crashed>>

StopCheck(t) ==
  /\ stopPc[t] = "check"
  /\ StopGoto(t, IF stopped[StopSession] THEN "unlock" ELSE "reason")
  /\ UNCHANGED <<stopVars, stoppedLock, stopArg, stopCalls, crashed>>

StopSetReason(t) ==
  /\ stopPc[t] = "reason"
  /\ stoppedReason' = [stoppedReason EXCEPT ![StopSession] = stopArg[t]]
  /\ StopGoto(t, "closeDone")
  /\ UNCHANGED <<stopped, sendCloses, doneCloses, stoppedLock, stopArg, stopCalls, crashed>>

\* close of a closed channel panics
StopCloseDone(t) ==
  /\ stopPc[t] = "closeDone"
  /\ doneCloses' = [doneCloses EXCEPT ![StopSession] = @ + 1]
  /\ crashed' = IF DoneClosed(StopSession) THEN "close of closed channel" ELSE crashed
  /\ StopGoto(t, "closeSend")
  /\ UNCHANGED <<stopped, stoppedReason, sendCloses, stoppedLock, stopArg, stopCalls>>

StopCloseSend(t) ==
  /\ stopPc[t] = "closeSend"
  /\ sendCloses' = [sendCloses EXCEPT ![StopSession] = @ + 1]
  /\ crashed' = IF SendClosed(StopSession) THEN "close of closed channel" ELSE crashed
  /\ StopGoto(t, "flag")
  /\ UNCHANGED <<stopped, stoppedReason, doneCloses, stoppedLock, stopArg, stopCalls>>

StopSetFlag(t) ==
  /\ stopPc[t] = "flag"
  /\ stopped' = [stopped EXCEPT ![StopSession] = TRUE]
  /\ StopGoto(t, "unlock")
  /\ UNCHANGED <<stoppedReason, sendCloses, doneCloses, stoppedLock, stopArg, stopCalls, crashed>>

\* the deferred client.stoppedLock.Unlock()
StopUnlock(t) ==
  /\ stopPc[t] = "unlock"
  /\ stoppedLock' = [stoppedLock EXCEPT ![StopSession] = "free"]
  /\ StopGoto(t, "idle")
  /\ UNCHANGED <<stopVars, stopArg, stopCalls, crashed>>

\* ---------------------------------------------------------------- the actor
\* the non-blocking steps up to the next send; a close of a closed channel
\* panics and handleCommand's deferred recover drops the rest of the command
RECURSIVE Run(_, _, _, _)
Run(steps, S, ctx, chans) ==
  IF steps = << >>
  THEN [S |-> S, ctx |-> ctx, chans |-> chans, todo |-> << >>, result |-> "done"]
  ELSE LET h == Head(steps)
       IN CASE h.t = "st" -> Run(Tail(steps), h.S, ctx, chans)
            [] h.t = "ctx" -> Run(Tail(steps), S, [ctx EXCEPT ![h.ch].nick = h.nick], chans)
            [] h.t = "seen" -> Run(Tail(steps), S, [ctx EXCEPT ![h.ch].last_seen = TRUE], chans)
            [] h.t = "close" ->
                 IF chans[h.ch] = "open"
                 THEN Run(Tail(steps), S, ctx, [chans EXCEPT ![h.ch] = "closed"])
                 ELSE [S |-> S, ctx |-> ctx, chans |-> chans, todo |-> << >>, result |-> "panic"]
            [] h.t = "bcast" /\ h.to = {} -> Run(Tail(steps), S, ctx, chans)
            [] OTHER ->
                 [S |-> S, ctx |-> ctx, chans |-> chans, todo |-> steps, result |-> "busy"]

Install(r) ==
  /\ rooms' = r.S.rooms
  /\ clients' = r.S.clients
  /\ userActiveRoom' = r.S.userActiveRoom
  /\ userResponseChan' = r.S.userResponseChan
  /\ context' = r.ctx
  /\ respChan' = r.chans
  /\ todo' = r.todo
  /\ lastResult' = r.result

\* "for command := range server.in": the next command and what stays queued
NextCommandLast(q) == q[Len(q)]
NextCommand(q) == Head(q)
RestCommands(q) == Tail(q)

\* a panic in a handler without the deferred recover ends the actor
RecoverNone(result) == IF result = "panic" THEN "dead" ELSE result
Recover(result) == result

\* cmdAdduser is called and takes its registering branch
Added(S, c) ==
  /\ ~Malformed(c)
  /\ c.command = "adduser" /\ ~c.userInitiated
  /\ ToLower(c.nick) \notin DOMAIN S.clients

\* acceptCommands: one turn of the loop, up to the first send of the handler
ActorDequeue ==
  /\ crashed = ""
  /\ lastResult # "dead"
  /\ todo = << >>
  /\ in # << >>
  /\ LET c == NextCommand(in)
         r == Run(handleCommand(ServerState, c), ServerState, context, respChan)
     IN /\ in' = RestCommands(in)
        /\ cur' = c
        /\ Install([r EXCEPT !.result = IF Malformed(c) THEN "dropped" ELSE Recover(@)])
        /\ mapAccess' = IF Malformed(c) THEN mapAccess ELSE mapAccess \cup {"actor"}
        /\ accepted' = IF Added(ServerState, c) THEN accepted \cup {c.client} ELSE accepted
  /\ before' = IF observing THEN Snapshot ELSE before
  /\ delivered' = << >>
  /\ UNCHANGED <<hVars, Send, stopVars, lockVars, writeVars, config, reader, writer, peerVars, crashed,
                 observing, posted, heard>>

\* whom the actor's pending send may go to
Targets ==
  IF todo = << >> THEN {}
  ELSE IF Head(todo).t = "send" THEN {Head(todo).ch}
  ELSE {p[2] : p \in Head(todo).to}

\* the command after one send of it was taken
AfterSend(s) ==
  LET h == Head(todo)
  IN IF h.t = "send" THEN Tail(todo)
     ELSE LET p == CHOOSE x \in h.to : x[2] = s
          IN <<[h EXCEPT !.to = @ \ {p}]>> \o Tail(todo)

Out(msg) == [op |-> "out", msg |-> msg, cmd |-> NoCommand, pc |-> "", reason |-> ""]
Post(cmd) == [op |-> "post", msg |-> << >>, cmd |-> cmd, pc |-> "", reason |-> ""]
Goto(pc, reason) == [op |-> "goto", msg |-> << >>, cmd |-> NoCommand, pc |-> pc, reason |-> reason]

\* "responseChan <- data" taken by the handler's select or by its deferred
\* drain; a send on a closed channel panics
ActorSend(s) ==
  /\ crashed = ""
  /\ s \in Targets
  /\ IF respChan[s] # "open"
     THEN /\ todo' = << >>
          /\ lastResult' = Recover("panic")
          /\ UNCHANGED <<srvVars, context, respChan, hVars>>
     ELSE /\ hpc[s] \in {"select", "drain"}
          /\ Install(Run(AfterSend(s), ServerState, context, respChan))
          /\ IF hpc[s] = "select"
             THEN /\ hpc' = [hpc EXCEPT ![s] = "run"]
                  /\ hq' = [hq EXCEPT ![s] = <<Out(Head(todo).msg), Goto("select", "")>>]
                  /\ UNCHANGED <<hnick, message, timer, exitReason>>
             ELSE UNCHANGED hVars
  /\ delivered' = IF observing /\ respChan[s] = "open"
                  THEN Append(delivered, <<s, Head(todo).msg>>)
                  ELSE delivered
  /\ UNCHANGED <<in, cur, Send, stopVars, lockVars, writeVars, config, reader, writer, peerVars, crashed, mapAccess,
                 accepted, observing, before, posted, heard>>

\* ------------------------------------------------------ the handler chain
\* what follows a blocking operation: the next one, or the jump that ends
\* the iteration.  The chat loop reads the nick from the context at its top;
\* a handler that returns runs its deferred calls, and client.handle stops
\* the client when the chain has returned.
HAdvance(s, rest, tm) ==
  IF Head(rest).op = "goto"
  THEN LET g == Head(rest)
       IN /\ hq' = [hq EXCEPT ![s] = << >>]
          /\ hpc' = [hpc EXCEPT ![s] = IF g.pc = "stop" THEN "done" ELSE g.pc]
          /\ hnick' = IF g.pc = "select"
                      THEN [hnick EXCEPT ![s] = context[s].nick]
                      ELSE hnick
          /\ exitReason' = IF g.pc \in {"drain", "stop"}
                           THEN [exitReason EXCEPT ![s] = g.reason]
                           ELSE exitReason
          /\ timer' = [timer EXCEPT ![s] = IF g.pc = "drain" THEN FALSE ELSE tm]
          /\ IF g.pc = "stop" THEN Stop(s, g.reason) ELSE UNCHANGED stopVars
  ELSE /\ hq' = [hq EXCEPT ![s] = rest]
       /\ hpc' = [hpc EXCEPT ![s] = "run"]
       /\ timer' = [timer EXCEPT ![s] = tm]
       /\ UNCHANGED <<hnick, exitReason, stopVars>>

\* "client.Send <- data": nothing checks that the client is not stopped
HandlerOut(s) ==
  /\ crashed = ""
  /\ hpc[s] = "run"
  /\ Head(hq[s]).op = "out"
  /\ IF SendClosed(s)
     THEN /\ crashed' = "send on closed channel"
          /\ UNCHANGED <<Send, hVars, stopVars>>
     ELSE /\ Len(Send[s]) < SendCap
          /\ Send' = [Send EXCEPT ![s] = Append(@, Head(hq[s]).msg)]
          /\ HAdvance(s, Tail(hq[s]), timer[s])
          /\ UNCHANGED <<message, crashed>>
  /\ UNCHANGED <<srvVars, actorVars, context, respChan, lockVars, writeVars, config, ghostVars, reader, writer,
                 peerVars, mapAccess>>

\* "ch.server.in <- &serverCommand{...}"
HandlerPost(s) ==
  /\ crashed = ""
  /\ hpc[s] = "run"
  /\ Head(hq[s]).op = "post"
  /\ Len(in) < InCap
  /\ in' = Append(in, Head(hq[s]).cmd)
  /\ HAdvance(s, Tail(hq[s]), timer[s])
  /\ posted' = IF observing THEN Append(posted, Head(hq[s]).cmd) ELSE posted
  /\ UNCHANGED <<srvVars, todo, cur, lastResult, context, respChan, message, Send,
                 lockVars, writeVars, config, reader, writer, peerVars, crashed, mapAccess,
                 accepted, observing, before, delivered, heard>>

\* the text idClientHandler takes for the nick: string(data), unfiltered
RawNick(line) == IF line.kind = "text" THEN line.text ELSE <<"/">> \o line.text

\* idClientHandler after "data, ok := <-client.Recv" gave a chunk, then
\* initServerClientHandler and the head of chatClientHandler.Handle
HandlerIdRecv(s) ==
  /\ crashed = ""
  /\ hpc[s] = "idrecv"
  /\ reader[s] = "run"
  /\ budget[s] > 0
  /\ \E line \in alphabet[s] :
       LET nick == RawNick(line)
       IN /\ budget' = [budget EXCEPT ![s] = @ - 1]
          /\ heard' = IF observing THEN Append(heard, <<s, nick>>) ELSE heard
          /\ IF nick = Empty
             THEN /\ HAdvance(s, <<Out(<<"You must provide a nick">>),
                                   Goto("stop", "No nick provided")>>, FALSE)
                  /\ UNCHANGED <<context, respChan, message>>
             ELSE IF ~OnlyLettersDigits(nick)
             THEN /\ HAdvance(s, <<Out(<<"Invalid nick">>),
                         Goto("stop", "Nick must contain only letters or numbers")>>, FALSE)
                  /\ UNCHANGED <<context, respChan, message>>
             ELSE /\ context' = [context EXCEPT ![s].nick = nick]
                  \* client.Stopped() reads client.stopped without the lock and
                  \* may miss a Stop made by another task
                  /\ \E isStopped \in {stopped[s], FALSE} :
                       IF isStopped
                       THEN /\ HAdvance(s, <<Goto("stop", "")>>, FALSE)
                            /\ UNCHANGED <<respChan, message>>
                       ELSE /\ respChan' = [respChan EXCEPT ![s] = "open"]
                            /\ message' = [message EXCEPT ![s] = << >>]
                            /\ hq' = [hq EXCEPT ![s] =
                                 <<Post(serverCommand(nick, s, s, "adduser", << >>, FALSE)),
                                   Goto("select", "")>>]
                            /\ hpc' = [hpc EXCEPT ![s] = "run"]
                            /\ hnick' = [hnick EXCEPT ![s] = nick]
                            /\ UNCHANGED <<timer, exitReason, stopVars>>
  /\ UNCHANGED <<srvVars, actorVars, Send, lockVars, writeVars, config, reader, writer,
                 alphabet, hangup, crashed, mapAccess, accepted, observing, before, delivered,
                 posted>>

\* idClientHandler when client.Recv is closed: return "Interrupted"
HandlerIdInterrupted(s) ==
  /\ crashed = ""
  /\ hpc[s] = "idrecv"
  /\ reader[s] = "done"
  /\ HAdvance(s, <<Goto("stop", "Interrupted")>>, FALSE)
  /\ UNCHANGED <<srvVars, actorVars, context, respChan, message, Send, lockVars, writeVars, config, ghostVars,
                 reader, writer, peerVars, crashed, mapAccess>>

\* only the last line of the message is sent
JoinLinesLast(lines) == IF lines = << >> THEN Empty ELSE lines[Len(lines)]

\* strings.Join(message, "\n")
RECURSIVE JoinLines(_)
JoinLines(lines) ==
  IF lines = << >> THEN Empty
  ELSE IF Len(lines) = 1 THEN lines[1]
  ELSE lines[1] \o <<"\n">> \o JoinLines(Tail(lines))

\* a flush that forgets the buffered lines
sendMessageDropping(s, nick, msgs) == << >>

\* sendMessage: what the handler is left to do
sendMessage(s, nick, msgs) ==
  IF Len(msgs) = 0 THEN << >>
  ELSE IF nick \notin DOMAIN userActiveRoom
  THEN << Out(<<"You'll need to join a room before you can talk.">>) >>
  ELSE << Post(serverCommand(nick, s, s, "say",
                  <<userActiveRoom[nick], JoinLines(msgs)>>, FALSE)) >>

\* sendMessage reads server.userActiveRoom in the handler's task
Reads(s, msgs) == IF Len(msgs) = 0 THEN mapAccess ELSE mapAccess \cup {"handler"}

\* select: the response channel was closed by the server
HandlerKicked(s) ==
  /\ crashed = ""
  /\ hpc[s] = "select"
  /\ respChan[s] = "closed"
  /\ HAdvance(s, <<Out(<<"Goodbye">>), Goto("drain", "Disconnected by server")>>, timer[s])
  /\ UNCHANGED <<srvVars, actorVars, context, respChan, message, Send, lockVars, writeVars, config, ghostVars,
                 reader, writer, peerVars, crashed, mapAccess>>

\* select: client.Recv is closed
HandlerPeerGone(s) ==
  /\ crashed = ""
  /\ hpc[s] = "select"
  /\ reader[s] = "done"
  /\ HAdvance(s, <<Post(serverCommand(hnick[s], s, s, "rmuser", << >>, FALSE)),
                   Goto("drain", "User disconnected")>>, timer[s])
  /\ UNCHANGED <<srvVars, actorVars, context, respChan, message, Send, lockVars, writeVars, config, ghostVars,
                 reader, writer, peerVars, crashed, mapAccess>>

\* select: a chunk came on client.Recv
HandlerLine(s) ==
  /\ crashed = ""
  /\ hpc[s] = "select"
  /\ reader[s] = "run"
  /\ budget[s] > 0
  /\ \E line \in alphabet[s] :
       LET input == GraphicOnly(line.text)
           flush == sendMessage(s, hnick[s], message[s])
       IN /\ budget' = [budget EXCEPT ![s] = @ - 1]
          /\ heard' = IF observing THEN Append(heard, <<s, input>>) ELSE heard
          /\ CASE line.kind = "cmd" ->
                    /\ HAdvance(s, flush \o
                          <<Post(serverCommand(hnick[s], s, s, line.name, line.args, TRUE)),
                            Goto("select", "")>>, FALSE)
                    /\ message' = [message EXCEPT ![s] = << >>]
                    /\ mapAccess' = Reads(s, message[s])
                    /\ UNCHANGED crashed
               [] line.kind = "bad" ->
                    /\ HAdvance(s, flush \o
                          <<Out(<<"Error">>), Out(<<"No command specified">>),
                            Goto("select", "")>>, FALSE)
                    /\ message' = [message EXCEPT ![s] = << >>]
                    /\ mapAccess' = Reads(s, message[s])
                    /\ UNCHANGED crashed
               [] line.kind = "text" /\ input = Empty ->
                    /\ HAdvance(s, <<Goto("select", "")>>, timer[s])
                    /\ UNCHANGED <<message, mapAccess, crashed>>
               [] line.kind = "text" /\ input # Empty
                    /\ Len(message[s]) < config.MessageLineLimit ->
                    /\ HAdvance(s, <<Goto("select", "")>>, TRUE)
                    /\ message' = [message EXCEPT ![s] = Append(@, input)]
                    /\ UNCHANGED <<mapAccess, crashed>>
               [] line.kind = "text" /\ input # Empty
                    /\ Len(message[s]) >= config.MessageLineLimit
                    /\ config.MessageLineLimit > 0 ->
                    /\ HAdvance(s, flush \o <<Goto("select", "")>>, TRUE)
                    /\ message' = [message EXCEPT ![s] = <<input>>]
                    /\ mapAccess' = Reads(s, message[s])
                    /\ UNCHANGED crashed
               [] OTHER ->
                    \* message[0] = input on a slice of length 0
                    /\ crashed' = "index out of range"
                    /\ UNCHANGED <<hVars, stopVars, mapAccess>>
  /\ UNCHANGED <<srvVars, actorVars, context, respChan, Send, lockVars, writeVars, config, reader, writer,
                 alphabet, hangup, accepted, observing, before, delivered, posted>>

\* what heard keeps for "<-messagePasteTimer.C"
Expired == <<"timer">>

\* select: the paste timer fired
HandlerTimer(s) ==
  /\ crashed = ""
  /\ hpc[s] = "select"
  /\ timer[s]
  /\ HAdvance(s, sendMessage(s, hnick[s], message[s]) \o <<Goto("select", "")>>, FALSE)
  /\ message' = [message EXCEPT ![s] = << >>]
  /\ mapAccess' = Reads(s, message[s])
  /\ heard' = IF observing THEN Append(heard, <<s, Expired>>) ELSE heard
  /\ UNCHANGED <<srvVars, actorVars, context, respChan, Send, lockVars, writeVars, config, reader, writer,
                 peerVars, crashed, accepted, observing, before, delivered, posted>>

\* The read of server.userActiveRoom in sendMessage is not ordered with the
\* actor's writes.  Besides reading the value before or after a write, the
\* runtime may detect the overlap and end the process.
ActorAboutToWrite ==
  /\ todo = << >>
  /\ in # << >>
  /\ lastResult # "dead"
  /\ Run(handleCommand(ServerState, NextCommand(in)), ServerState, context,
         respChan).S.userActiveRoom # userActiveRoom

RacyRead(s) ==
  /\ crashed = ""
  /\ hpc[s] = "select"
  /\ timer[s]
  /\ message[s] # << >>
  /\ ActorAboutToWrite
  /\ crashed' = "concurrent map read and map write"
  /\ mapAccess' = mapAccess \cup {"handler"}
  /\ UNCHANGED <<srvVars, actorVars, context, respChan, hVars, Send, stopVars, lockVars, writeVars, config, ghostVars,
                 reader, writer, peerVars>>

\* the deferred "for _ = range responseChan" has ended; client.handle stops
\* the client with the handler's exit reason
HandlerDrained(s) ==
  /\ crashed = ""
  /\ hpc[s] = "drain"
  /\ respChan[s] = "closed"
  /\ hpc' = [hpc EXCEPT ![s] = "done"]
  /\ Stop(s, exitReason[s])
  /\ UNCHANGED <<srvVars, actorVars, context, respChan, hq, hnick, message, timer,
                 exitReason, Send, lockVars, writeVars, config, ghostVars, reader, writer, peerVars, crashed, mapAccess>>

\* ------------------------------------------------- Client.receive, Client.send
\* scanner.Scan() ends because the peer closed the connection
ReaderHangup(s) ==
  /\ crashed = ""
  /\ reader[s] = "run"
  /\ hangup[s]
  /\ writer[s] = "run"
  /\ Stop(s, "Client disconnected")
  /\ reader' = [reader EXCEPT ![s] = "done"]
  /\ budget' = [budget EXCEPT ![s] = 0]
  /\ UNCHANGED <<srvVars, actorVars, context, respChan, hVars, Send, lockVars, writeVars, config, ghostVars, writer,
                 alphabet, hangup, crashed, mapAccess>>

\* the reader leaves on "<-client.done" while it offers a chunk, or when
\* Scan fails because the writer closed rw
ReaderExit(s) ==
  /\ crashed = ""
  /\ reader[s] = "run"
  /\ stopped[s]
  /\ budget[s] > 0 \/ writer[s] = "done"
  /\ reader' = [reader EXCEPT ![s] = "done"]
  /\ budget' = [budget EXCEPT ![s] = 0]
  /\ UNCHANGED <<srvVars, actorVars, context, respChan, hVars, Send, stopVars, lockVars, writeVars, config, ghostVars,
                 writer, alphabet, hangup, crashed, mapAccess>>

\* one buffer taken from client.Send and written
WriterWrite(s) ==
  /\ crashed = ""
  /\ writer[s] = "run"
  /\ Send[s] # << >>
  /\ Send' = [Send EXCEPT ![s] = Tail(@)]
  /\ UNCHANGED <<srvVars, actorVars, context, respChan, hVars, stopVars, lockVars, writeVars, config, ghostVars,
                 reader, writer, peerVars, crashed, mapAccess>>

\* rw.Write fails: Stop("Send error"), return, and the deferred rw.Close()
WriterError(s) ==
  /\ crashed = ""
  /\ writer[s] = "run"
  /\ Send[s] # << >>
  /\ hangup[s]
  /\ Send' = [Send EXCEPT ![s] = Tail(@)]
  /\ Stop(s, "Send error")
  /\ writer' = [writer EXCEPT ![s] = "done"]
  /\ rwCloses' = [rwCloses EXCEPT ![s] = @ + 1]
  /\ UNCHANGED <<srvVars, actorVars, context, respChan, hVars, lockVars, data, rw, queued,
                 config, ghostVars, reader, peerVars, crashed, mapAccess>>

\* client.Send is closed and drained: the range loop ends, rw.Close()
WriterClose(s) ==
  /\ crashed = ""
  /\ writer[s] = "run"
  /\ data[s] = << >>
  /\ Send[s] = << >>
  /\ SendClosed(s)
  /\ writer' = [writer EXCEPT ![s] = "done"]
  /\ rwCloses' = [rwCloses EXCEPT ![s] = @ + 1]
  /\ UNCHANGED <<srvVars, actorVars, context, respChan, hVars, Send, stopVars, lockVars,
                 data, rw, queued, config, ghostVars, reader, peerVars, crashed, mapAccess>>

\* --------------------------------------------------------- the whole system
NoNick == <<"?">>

\* NewServer, and NewClient for every connection in live; the other
\* sessions never connect.  obs: the histories are kept.
InitSystem(live, bud, alph, hang, obs) ==
  /\ rooms = EmptyMap /\ clients = EmptyMap
  /\ userActiveRoom = EmptyMap /\ userResponseChan = EmptyMap
  /\ in = << >> /\ todo = << >> /\ cur = NoCommand /\ lastResult = "none"
  /\ context = [s \in Sessions |-> [nick |-> NoNick, last_seen |-> FALSE]]
  /\ respChan = [s \in Sessions |-> "none"]
  /\ hpc = [s \in Sessions |-> IF s \in live THEN "run" ELSE "none"]
  /\ hq = [s \in Sessions |-> IF s \in live
                                THEN <<Out(<<"Nick: ">>), Goto("idrecv", "")>>
                                ELSE << >>]
  /\ hnick = [s \in Sessions |-> NoNick]
  /\ message = [s \in Sessions |-> << >>]
  /\ timer = [s \in Sessions |-> FALSE]
  /\ exitReason = [s \in Sessions |-> ""]
  /\ Send = [s \in Sessions |-> << >>]
  /\ stopped = [s \in Sessions |-> FALSE]
  /\ stoppedReason = [s \in Sessions |-> ""]
  /\ sendCloses = [s \in Sessions |-> 0]
  /\ doneCloses = [s \in Sessions |-> 0]
  /\ stoppedLock = [s \in Sessions |-> "free"]
  /\ stopPc = [t \in Tasks |-> "idle"]
  /\ stopArg = [t \in Tasks |-> ""]
  /\ stopCalls = [t \in Tasks |-> 0]
  /\ reader = [s \in Sessions |-> IF s \in live THEN "run" ELSE "done"]
  /\ writer = [s \in Sessions |-> IF s \in live THEN "run" ELSE "done"]
  /\ budget = [s \in Sessions |-> IF s \in live THEN bud[s] ELSE 0]
  /\ alphabet = [s \in Sessions |-> IF s \in live THEN alph[s] ELSE {}]
  /\ hangup = [s \in Sessions |-> s \in live /\ hang[s]]
  /\ crashed = ""
  /\ mapAccess = {}
  /\ accepted = {}
  /\ observing = obs
  /\ before = Snapshot
  /\ delivered = << >> /\ posted = << >> /\ heard = << >>
  /\ data = [s \in Sessions |-> << >>]
  /\ rw = [s \in Sessions |-> << >>]
  /\ rwCloses = [s \in Sessions |-> 0]
  /\ queued = [s \in Sessions |-> << >>]
  /\ config = ServerConfig

InitWith(live, bud, alph, hang) == InitSystem(live, bud, alph, hang, FALSE)

NickA == <<"a">>
NickUpperA == <<"A">>
NickB == <<"b">>
NickC == <<"c">>
RoomR == <<"r">>
RoomQ == <<"q">>
NickQ == <<"q">>

\* Two connections.  The first peer gives a nick and then creates, leaves,
\* renames and quits (/create "" names the room with the empty name); the
\* second gives a nick, joins, and may close its connection at any moment.
Next ==
  \/ ActorDequeue
  \/ \E s \in Sessions :
       \/ ActorSend(s)
       \/ HandlerOut(s) \/ HandlerPost(s) \/ HandlerIdRecv(s) \/ HandlerIdInterrupted(s)
       \/ HandlerLine(s) \/ HandlerTimer(s) \/ HandlerKicked(s) \/ HandlerPeerGone(s)
       \/ HandlerDrained(s) \/ RacyRead(s)
       \/ WriterWrite(s) \/ WriterError(s) \/ WriterClose(s)
       \/ ReaderHangup(s) \/ ReaderExit(s)

Init == InitWith({1, 2}, <<MaxLines, 2>>,
                 <<{Text(NickA), Command("create", <<RoomR>>), Command("leave", << >>),
                    Command("create", <<Empty>>), Command("nick", <<NickB>>),
                    Command("quit", << >>)},
                   {Text(NickA), Command("join", <<RoomR>>)}>>,
                 <<FALSE, TRUE>>)

Spec == Init /\ [][Next]_vars

\* One peer that renames itself and creates rooms faster than the actor
\* answers, and a second peer that only gives its nick, in upper case.
NextRename ==
  \/ ActorDequeue
  \/ \E s \in Sessions :
       \/ ActorSend(s)
       \/ HandlerOut(s) \/ HandlerPost(s) \/ HandlerIdRecv(s)
       \/ HandlerLine(s) \/ HandlerTimer(s) \/ HandlerKicked(s) \/ HandlerDrained(s)
       \/ WriterWrite(s) \/ WriterClose(s) \/ ReaderExit(s)

InitRename ==
  InitWith({1, 2}, <<RenameLines, 1>>,
           <<{Text(NickA), Command("create", <<RoomR>>), Command("create", <<RoomQ>>),
              Command("nick", <<NickA>>), Command("nick", <<NickC>>)},
             {Text(NickUpperA)}>>,
           <<FALSE, FALSE>>)

SpecRename == InitRename /\ [][NextRename]_vars

\* A client whose reader, writer and handler call Stop concurrently.
NextStop ==
  \E t \in Tasks :
    \/ StopCall(t) \/ StopLock(t) \/ StopCheck(t) \/ StopSetReason(t)
    \/ StopCloseDone(t) \/ StopCloseSend(t) \/ StopSetFlag(t) \/ StopUnlock(t)

InitStop == InitWith({}, << >>, << >>, << >>)

SpecStop == InitStop /\ [][NextStop]_vars

\* The actor alone with a queue it finds filled.  Session 1 is registered
\* as "a", its peer is gone and its handler drains the response channel;
\* session 2 was refused the nick "a", its response channel is closed and
\* its handler has left, but commands it posted are still queued.
EnvelopesQueued ==
  { serverCommand(NickA, 1, 1, "users", << >>, TRUE),
    serverCommand(NickA, 1, 1, "rmuser", << >>, FALSE),
    serverCommand(NickA, 2, 2, "users", << >>, TRUE),
    serverCommand(NickA, 2, 2, "rmuser", << >>, FALSE),
    serverCommand(Empty, 1, 1, "quit", << >>, TRUE),
    serverCommand(NickA, Nil, 1, "quit", << >>, TRUE),
    serverCommand(NickA, 1, Nil, "quit", << >>, TRUE) }

QueuesUpTo(n) == UNION {[1..k -> EnvelopesQueued] : k \in 1..n}

NextActor ==
  \/ ActorDequeue
  \/ \E s \in Sessions : ActorSend(s) \/ HandlerDrained(s)

InitActor ==
  /\ rooms = EmptyMap
  /\ clients = Put(EmptyMap, NickA, 1)
  /\ userActiveRoom = EmptyMap
  /\ userResponseChan = Put(EmptyMap, NickA, 1)
  /\ in \in QueuesUpTo(InCap)
  /\ todo = << >> /\ cur = NoCommand /\ lastResult = "none"
  /\ context = [s \in Sessions |-> [nick |-> IF s = 3 THEN NoNick ELSE NickA,
                                    last_seen |-> s = 1]]
  /\ respChan = <<"open", "closed", "none">>
  /\ hpc = <<"drain", "done", "none">>
  /\ hq = [s \in Sessions |-> << >>]
  /\ hnick = [s \in Sessions |-> IF s = 3 THEN NoNick ELSE NickA]
  /\ message = [s \in Sessions |-> << >>]
  /\ timer = [s \in Sessions |-> FALSE]
  /\ exitReason = <<"User disconnected", "Disconnected by server", "">>
  /\ Send = [s \in Sessions |-> << >>]
  /\ stopped = <<TRUE, TRUE, FALSE>>
  /\ stoppedReason = <<"Client disconnected", "Disconnected by server", "">>
  /\ sendCloses = <<1, 1, 0>>
  /\ doneCloses = <<1, 1, 0>>
  /\ stoppedLock = [s \in Sessions |-> "free"]
  /\ stopPc = [t \in Tasks |-> "idle"]
  /\ stopArg = [t \in Tasks |-> ""]
  /\ stopCalls = [t \in Tasks |-> 0]
  /\ reader = [s \in Sessions |-> "done"]
  /\ writer = [s \in Sessions |-> "done"]
  /\ budget = [s \in Sessions |-> 0]
  /\ alphabet = [s \in Sessions |-> {}]
  /\ hangup = [s \in Sessions |-> FALSE]
  /\ crashed = ""
  /\ mapAccess = {"actor"}
  /\ accepted = {1}
  /\ observing = FALSE
  /\ before = Snapshot
  /\ delivered = << >> /\ posted = << >> /\ heard = << >>
  /\ data = [s \in Sessions |-> << >>]
  /\ rw = [s \in Sessions |-> << >>]
  /\ rwCloses = [s \in Sessions |-> 0]
  /\ queued = [s \in Sessions |-> << >>]
  /\ config = ServerConfig

\* the Go scheduler runs the actor whenever it can take a step, and the
\* handler that drains a response channel whenever the actor sends on it
FairActor == WF_vars(ActorDequeue) /\ \A s \in Sessions : WF_vars(ActorSend(s))

SpecActor == InitActor /\ [][NextActor]_vars /\ FairActor

\* One command at a time, against every server state a short history of
\* commands leaves behind.  Sessions 1 and 2 registered as "a" and "b" and
\* their peers waited for each answer; then one peer sends one more line, or
\* closes its connection, or a third peer connects and gives its nick.
Topic == <<"m">>
RoomPass == <<"p">>
WrongPass == <<"x">>
RoomUpperR == <<"R">>
BadName == <<"r", "!">>

\* a command handled to its end, every receiver taking what it is sent
RECURSIVE Settle(_)
Settle(r) ==
  IF r.todo = << >> THEN r
  ELSE LET h == Head(r.todo)
           to == IF h.t = "send" THEN {h.ch} ELSE {x[2] : x \in h.to}
       IN IF \E s \in to : r.chans[s] # "open"
          THEN [r EXCEPT !.todo = << >>, !.result = "panic"]
          ELSE Settle(Run(Tail(r.todo), r.S, r.ctx, r.chans))

\* the chat loop posts a line of session s under the nick of its context
Request(s, name, args, userInitiated) ==
  [s |-> s, name |-> name, args |-> args, userInitiated |-> userInitiated]

Handled(r, q) ==
  Settle(Run(handleCommand(r.S, serverCommand(r.ctx[q.s].nick, q.s, q.s, q.name, q.args,
                                              q.userInitiated)),
             r.S, r.ctx, r.chans))

RECURSIVE HandledAll(_, _)
HandledAll(r, qs) ==
  IF qs = << >> THEN r ELSE HandledAll(Handled(r, Head(qs)), Tail(qs))

Connected ==
  [S |-> [rooms |-> EmptyMap, clients |-> EmptyMap, userActiveRoom |-> EmptyMap,
          userResponseChan |-> EmptyMap],
   ctx |-> [s \in Sessions |-> [nick |-> IF s = 1 THEN NickA ELSE IF s = 2 THEN NickB ELSE NoNick,
                                last_seen |-> FALSE]],
   chans |-> <<"open", "open", "none">>, todo |-> << >>, result |-> "none"]

Registered ==
  HandledAll(Connected, <<Request(1, "adduser", << >>, FALSE), Request(2, "adduser", << >>, FALSE)>>)

SetupRequests ==
  { Request(1, "create", <<RoomR>>, TRUE),
    Request(1, "create", <<RoomR, Topic, RoomPass>>, TRUE),
    Request(1, "create", <<Empty>>, TRUE),
    Request(1, "nick", <<NickC>>, TRUE),
    Request(1, "nick", <<NickA>>, TRUE),
    Request(1, "leave", << >>, TRUE),
    Request(2, "join", <<RoomR>>, TRUE),
    Request(2, "join", <<RoomR, RoomPass>>, TRUE),
    Request(2, "create", <<RoomQ>>, TRUE) }

Setups == UNION {[1..k -> SetupRequests] : k \in 0..SetupLen}

Reached == {HandledAll(Registered, qs) : qs \in Setups}

\* the lines a registered peer types
LinesTyped ==
  { Command("adduser", << >>), Command("rmuser", << >>), Command("say", <<RoomR, Topic>>),
    Command("users", << >>),
    Command("create", <<RoomR>>), Command("create", <<RoomUpperR>>),
    Command("create", <<RoomQ, Topic, RoomPass>>), Command("create", <<Empty>>),
    Command("create", <<BadName>>),
    Command("join", <<RoomR>>), Command("join", <<RoomR, RoomPass>>),
    Command("join", <<RoomR, WrongPass>>), Command("join", <<RoomQ>>),
    Command("leave", << >>), Command("leave", <<Topic>>),
    Command("quit", << >>), Command("quit", <<Topic>>),
    Command("nick", <<NickC>>), Command("nick", <<NickUpperA>>), Command("nick", <<NickB>>),
    Command("nick", <<BadName>>),
    Command("create", << >>), Command("join", << >>), Command("nick", << >>),
    Command("me", << >>), Command("me", <<Topic>>), Command("whois", <<NickQ>>),
    Command("bogus", << >>),
    Text(Topic) }

\* the nicks the third peer may give
NicksGiven == {Text(NickUpperA), Text(NickC)}

\* the server in state r with sessions 1 and 2 in the chat loop, and
\* session 3 at the nick prompt if it has lines to send; the peer of s sends
\* bud[s] lines of alph[s] and may close its connection if hang[s]
InitConfigured(r, bud, alph, hang, cfg) ==
    /\ rooms = r.S.rooms /\ clients = r.S.clients
    /\ userActiveRoom = r.S.userActiveRoom /\ userResponseChan = r.S.userResponseChan
    /\ in = << >> /\ todo = << >> /\ cur = NoCommand /\ lastResult = "done"
    /\ context = r.ctx
    /\ respChan = r.chans
    /\ hpc = [s \in Sessions |-> IF s # 3 THEN "select" ELSE IF bud[3] > 0 THEN "idrecv" ELSE "none"]
    /\ hq = [s \in Sessions |-> << >>]
    /\ hnick = [s \in Sessions |-> r.ctx[s].nick]
    /\ message = [s \in Sessions |-> << >>]
    /\ timer = [s \in Sessions |-> FALSE]
    /\ exitReason = [s \in Sessions |-> ""]
    /\ Send = [s \in Sessions |-> << >>]
    /\ stopped = [s \in Sessions |-> FALSE]
    /\ stoppedReason = [s \in Sessions |-> ""]
    /\ sendCloses = [s \in Sessions |-> 0]
    /\ doneCloses = [s \in Sessions |-> 0]
    /\ stoppedLock = [s \in Sessions |-> "free"]
    /\ stopPc = [t \in Tasks |-> "idle"]
    /\ stopArg = [t \in Tasks |-> ""]
    /\ stopCalls = [t \in Tasks |-> 0]
    /\ reader = [s \in Sessions |-> IF s # 3 \/ bud[3] > 0 THEN "run" ELSE "done"]
    /\ writer = [s \in Sessions |-> IF s # 3 \/ bud[3] > 0 THEN "run" ELSE "done"]
    /\ budget = bud
    /\ alphabet = alph
    /\ hangup = hang
    /\ crashed = ""
    /\ mapAccess = {"actor"}
    /\ accepted = {1, 2}
    /\ observing = TRUE
    /\ before = Snapshot
    /\ delivered = << >> /\ posted = << >> /\ heard = << >>
    /\ data = [s \in Sessions |-> << >>]
    /\ rw = [s \in Sessions |-> << >>]
    /\ rwCloses = [s \in Sessions |-> 0]
    /\ queued = [s \in Sessions |-> << >>]
    /\ config = cfg

InitFrom(r, bud, alph, hang) == InitConfigured(r, bud, alph, hang, ServerConfig)

InitCmd ==
  \E r \in Reached, who \in Sessions, gone \in BOOLEAN :
    /\ gone => who # 3
    /\ InitFrom(r, [s \in Sessions |-> IF s = who /\ ~gone THEN 1 ELSE 0],
                   [s \in Sessions |-> IF s # who \/ gone THEN {}
                                       ELSE IF s = 3 THEN NicksGiven ELSE LinesTyped],
                   [s \in Sessions |-> s = who /\ gone])

NextCmd ==
  \/ ActorDequeue
  \/ \E s \in Sessions :
       \/ ActorSend(s)
       \/ HandlerOut(s) \/ HandlerPost(s) \/ HandlerIdRecv(s)
       \/ HandlerLine(s) \/ HandlerTimer(s) \/ HandlerKicked(s) \/ HandlerPeerGone(s)
       \/ HandlerDrained(s)
       \/ WriterWrite(s) \/ WriterClose(s) \/ ReaderHangup(s) \/ ReaderExit(s)

SpecCmd == InitCmd /\ [][NextCmd]_vars

\* "a" and "b" share the room r; the peer of "a" sends lines of text, and
\* the paste timer may expire after any of them.
PasteTexts == {Text(NickA), Text(NickB)}

InRoom == HandledAll(Registered, <<Request(1, "create", <<RoomR>>, TRUE),
                                   Request(2, "join", <<RoomR>>, TRUE)>>)

InitPaste == InitFrom(InRoom, <<PasteLines, 0, 0>>, <<PasteTexts, {}, {}>>,
                      <<FALSE, FALSE, FALSE>>)

NextPaste ==
  \/ ActorDequeue
  \/ \E s \in Sessions :
       \/ ActorSend(s)
       \/ HandlerOut(s) \/ HandlerPost(s) \/ HandlerLine(s) \/ HandlerTimer(s)
       \/ WriterWrite(s)

SpecPaste == InitPaste /\ [][NextPaste]_vars

\* Any of the server states of SpecCmd; one of the two peers renames itself
\* and joins the room r, or the other way round, without waiting for the
\* answer to the first line.
LinesBurst == {Command("nick", <<NickC>>), Command("join", <<RoomR>>)}

InitBurst ==
  \E r \in Reached, who \in {1, 2} :
    InitFrom(r, [s \in Sessions |-> IF s = who THEN BurstLines ELSE 0],
                [s \in Sessions |-> IF s = who THEN LinesBurst ELSE {}],
                [s \in Sessions |-> FALSE])

NextBurst ==
  \/ ActorDequeue
  \/ \E s \in Sessions :
       \/ ActorSend(s)
       \/ HandlerOut(s) \/ HandlerPost(s) \/ HandlerLine(s)
       \/ WriterWrite(s)

SpecBurst == InitBurst /\ [][NextBurst]_vars

\* "a" moderates the room r and "b" is a member of it.  The peer of "a"
\* renames itself, joins r and types text; it may send a line before the
\* actor has handled the one before.
LinesRejoin == {Command("nick", <<NickC>>), Command("nick", <<NickQ>>),
                Command("join", <<RoomR>>), Text(Topic)}

InitRejoin == InitFrom(InRoom, <<RejoinLines, 0, 0>>, <<LinesRejoin, {}, {}>>,
                       <<FALSE, FALSE, FALSE>>)

NextRejoin ==
  \/ ActorDequeue
  \/ \E s \in Sessions :
       \/ ActorSend(s)
       \/ HandlerOut(s) \/ HandlerPost(s) \/ HandlerLine(s) \/ HandlerTimer(s)
       \/ WriterWrite(s)

SpecRejoin == InitRejoin /\ [][NextRejoin]_vars

\* "b" moderates the private room r.  The peer of "a" renames itself twice
\* without waiting for an answer, while a third peer connects, gives the
\* nick "a" and joins r with its password.
InPrivate == HandledAll(Registered, <<Request(2, "create", <<RoomR, Topic, RoomPass>>, TRUE)>>)

InitTakeover ==
  InitFrom(InPrivate, <<TakeoverLines, 0, TakeoverLines>>,
           <<{Command("nick", <<NickC>>), Command("nick", <<NickQ>>)}, {},
             {Text(NickA), Command("join", <<RoomR, RoomPass>>)}>>,
           <<FALSE, FALSE, FALSE>>)

NextTakeover ==
  \/ ActorDequeue
  \/ \E s \in Sessions :
       \/ ActorSend(s)
       \/ HandlerOut(s) \/ HandlerPost(s) \/ HandlerIdRecv(s) \/ HandlerLine(s)
       \/ WriterWrite(s)

SpecTakeover == InitTakeover /\ [][NextTakeover]_vars

\* ------------------------------------------------------------ the claims
\* the actor has finished the command it dequeued
ActorIdle == todo = << >>

Occupants(r) == r.mods \cup r.users

\* a session whose adduser was accepted and whose chat loop has not exited
Live(s) == s \in accepted /\ hpc[s] \in {"select", "run"}

\* C1: no two distinct live sessions have nicks that are equal when compared
\* case-insensitively.
NickUniqueness ==
  \A s, t \in Sessions :
    (s # t /\ Live(s) /\ Live(t)) => ToLower(context[s].nick) # ToLower(context[t].nick)

\* C2: after the actor finishes a command, every nick registered in clients
\* has at most one userActiveRoom entry, and that entry names a room of rooms
\* that holds the nick as a moderator or as a member, never as both.
ServerStateInvariant ==
  ActorIdle =>
    \A k \in DOMAIN clients :
      LET entries == {n \in DOMAIN userActiveRoom : ToLower(n) = k}
      IN /\ Cardinality(entries) <= 1
         /\ \A n \in entries :
              /\ ToLower(userActiveRoom[n]) \in DOMAIN rooms
              /\ LET r == rooms[ToLower(userActiveRoom[n])]
                 IN (n \in r.mods) # (n \in r.users)

RoomsOf(n) == {k \in DOMAIN rooms : n \in Occupants(rooms[k])}

\* C4: in every state a nick is an occupant of at most one room.
SingleActiveRoom ==
  \A k \in DOMAIN rooms : \A n \in Occupants(rooms[k]) : RoomsOf(n) = {k}

\* C5: only the actor task reads or writes rooms, clients, userActiveRoom
\* and userResponseChan.
SingleWriter == mapAccess \subseteq {"actor"}

\* C6: no handler sends on client.Send after Stop has closed it.
NoSendOnClosedSend == crashed # "send on closed channel"

\* the actor can only send to s, and the handler of s waits for room in a
\* queue that only the actor, or only a writer that has ended, can make
BlockedOnPost(s) ==
  hpc[s] = "run" /\ Head(hq[s]).op = "post" /\ Len(in) >= InCap
BlockedOnOut(s) ==
  /\ hpc[s] = "run" /\ Head(hq[s]).op = "out"
  /\ Len(Send[s]) >= SendCap /\ ~SendClosed(s) /\ writer[s] = "done"
Stalled(s) ==
  /\ crashed = ""
  /\ Targets = {s}
  /\ respChan[s] = "open"
  /\ BlockedOnPost(s) \/ BlockedOnOut(s)

\* C7: the actor is never blocked sending to the response channel of a
\* session whose handler is itself blocked posting to the full command
\* queue or sending to its full outbound queue.
ActorNeverStalled == \A s \in Sessions : ~Stalled(s)

\* C8: server.in changes only by a post appended at its end or by the idle
\* actor taking its head, which is then the command the actor handles.
CommandQueueOrder ==
  [][in' # in =>
       \/ /\ Len(in') = Len(in) + 1
          /\ in' = Append(in, in'[Len(in')])
       \/ /\ in # << >>
          /\ in' = Tail(in)
          /\ cur' = Head(in)
          /\ ActorIdle]_vars

\* the actor has handled a command and finds the commands of two sessions
\* queued behind it
TwoSessionsQueued ==
  /\ cur # NoCommand
  /\ ActorIdle
  /\ Len(in) = 2
  /\ in[1].client # in[2].client

\* some call of Stop on the client has returned
StopReturned == \E t \in Tasks : stopCalls[t] > 0 /\ stopPc[t] = "idle"

\* C9: however many Stop calls the reader, the writer and the handler make,
\* client.done and client.Send are each closed once and never twice, stopped
\* becomes true and stays true, and stoppedReason is set once, before any
\* call has returned, to the reason of the call that holds the lock.
IdempotentStop ==
  /\ [](/\ sendCloses[StopSession] <= 1
        /\ doneCloses[StopSession] <= 1
        /\ crashed = "")
  /\ [](StopReturned =>
          /\ stopped[StopSession]
          /\ sendCloses[StopSession] = 1
          /\ doneCloses[StopSession] = 1
          /\ stoppedReason[StopSession] # "")
  /\ [][/\ stopped[StopSession] => stopped'[StopSession]
        /\ stoppedReason[StopSession] # "" =>
             stoppedReason'[StopSession] = stoppedReason[StopSession]
        /\ stoppedReason'[StopSession] # stoppedReason[StopSession] =>
             /\ ~StopReturned
             /\ stoppedLock[StopSession] \in Tasks
             /\ stoppedReason'[StopSession] = stopArg[stoppedLock[StopSession]]]_vars

\* the writer's Stop came first and the reader and the handler have called
\* Stop after it
StoppedThreeTimes ==
  /\ \A t \in Tasks : stopCalls[t] > 0 /\ stopPc[t] = "idle"
  /\ stoppedReason[StopSession] = "Send error"
  /\ sendCloses[StopSession] = 1
  /\ doneCloses[StopSession] = 1

\* C10: an envelope without nick, client or response channel is dropped and
\* changes nothing; a panic in a handler does not end the actor, which goes
\* on to take every command queued behind the failing one.
FailureFirewall ==
  /\ [][(in # << >> /\ in' = Tail(in) /\ Malformed(Head(in))) =>
          /\ UNCHANGED <<srvVars, context, respChan>>
          /\ todo' = << >>]_vars
  /\ [](lastResult # "dead")
  /\ <>(in = << >> /\ ActorIdle)

\* session 2's stale rmuser removed "a" and panicked closing its closed
\* channel, and the actor has answered the /users queued behind it
HandledAfterPanic ==
  /\ cur = serverCommand(NickA, 1, 1, "users", << >>, TRUE)
  /\ lastResult = "done"
  /\ in = << >>
  /\ ActorIdle
  /\ clients = EmptyMap
  /\ respChan[1] = "open"

\* ---------------------------------------------- one command and its effect
\* the actor has finished, without a panic, a command it was able to handle
Finished == observing /\ ActorIdle /\ lastResult = "done" /\ ~Malformed(cur)

\* what a handler leaves when every send of it is taken
EffectOf(steps) == Settle(Run(steps, before.S, before.context, before.chans))

\* the messages of the finished command that went to session s, in order
DeliveredTo(s) == SelectSeq(delivered, LAMBDA d : d[1] = s)
TimesDelivered(s, msg) == Cardinality({i \in DOMAIN delivered : delivered[i] = <<s, msg>>})

\* C11: an envelope marked userInitiated that names adduser, rmuser or say is
\* answered "Invalid command" and leaves the server maps and the channels as
\* they were; an envelope not so marked has the effect of the internal
\* handler of its name when there is one, and else that of the user command.
InternalCommandsGuarded ==
  (Finished /\ cur.command # "") =>
    IF cur.userInitiated /\ cur.command \in internalCommands
    THEN /\ ServerState = before.S
         /\ respChan = before.chans
         /\ delivered = << <<cur.responseChan, <<"Invalid command", cur.command>>>> >>
    ELSE IF cur.command \in internalCommands \cup commands
    THEN /\ ServerState = EffectOf(Dispatch(cur.command, before.S, cur)).S
         /\ respChan = EffectOf(Dispatch(cur.command, before.S, cur)).chans
    ELSE delivered = << <<cur.responseChan, <<"Invalid command", cur.command>>>> >>

\* a peer in a room typed "/say r m" and was refused
TypedSayRefused ==
  /\ Finished /\ cur.command = "say" /\ cur.userInitiated
  /\ cur.nick \in DOMAIN userActiveRoom
  /\ delivered # << >>

\* the bodies of the "say" commands the chat loop of session 1 has posted
SaysPosted == SelectSeq(posted, LAMBDA c : c.command = "say" /\ c.client = 1)
SayBodies == [i \in 1..Len(SaysPosted) |-> SaysPosted[i].args[2]]

\* the chat loop of session 1 is back at its select
AtSelect == hpc[1] = "select"

Line(x) == <<1, x.text>>
Tick == <<1, Expired>>

AdduserOutcome ==
  (Finished /\ cur.command = "adduser" /\ ~cur.userInitiated) =>
    IF ToLower(cur.nick) \in DOMAIN before.S.clients
    THEN /\ ServerState = before.S
         /\ delivered = << <<cur.responseChan, <<"That nick is already taken.">>>> >>
         /\ respChan = [before.chans EXCEPT ![cur.responseChan] = "closed"]
    ELSE /\ clients = Put(before.S.clients, ToLower(cur.nick), cur.client)
         /\ userResponseChan = Put(before.S.userResponseChan, cur.nick, cur.responseChan)
         /\ rooms = before.S.rooms
         /\ userActiveRoom = before.S.userActiveRoom
         /\ delivered = << <<cur.responseChan, <<"Welcome", cur.nick>>>> >>
         /\ respChan = before.chans

\* "A" was refused while "a" is registered
NickRefusedByCase ==
  /\ Finished /\ cur.command = "adduser" /\ ~cur.userInitiated
  /\ cur.nick = NickUpperA
  /\ NickA \in DOMAIN clients
  /\ respChan[cur.responseChan] = "closed"

\* C14: once cmdRmuser or cmdQuit has finished for a registered nick, the
\* nick is an occupant of no room, has no entry in userActiveRoom, clients
\* or userResponseChan, a room it was the last occupant of is gone, and its
\* response channel is closed.
RemovedEverywhere ==
  (/\ Finished
   /\ (cur.command = "rmuser" /\ ~cur.userInitiated) \/ cur.command = "quit"
   /\ ToLower(cur.nick) \in DOMAIN before.S.clients) =>
    /\ \A k \in DOMAIN rooms : cur.nick \notin Occupants(rooms[k])
    /\ \A k \in DOMAIN before.S.rooms :
         Occupants(before.S.rooms[k]) \subseteq {cur.nick} => k \notin DOMAIN rooms
    /\ cur.nick \notin DOMAIN userActiveRoom
    /\ ToLower(cur.nick) \notin DOMAIN clients
    /\ cur.nick \notin DOMAIN userResponseChan
    /\ respChan[cur.responseChan] = "closed"

\* session s is registered under the nick of ctx and that nick is a member
\* of the room with key k
MemberIn(S, ctx, s, k) ==
  /\ k \in DOMAIN S.rooms
  /\ Get(S.clients, ToLower(ctx[s].nick), Nil) = s
  /\ ctx[s].nick \in S.rooms[k].users

\* C15: a user who was no member of a room with a non-empty roomPass is a
\* member of it after a command only if the command was that user's join
\* with the room's password (a rename keeps the membership the user had); a
\* join without password or with another password changes none of the maps
\* - not the member set, not the caller's active room, not the room the
\* caller was in - and is answered to the caller alone; and a room that
\* exists before and after a command has the same roomPass.
PrivateRoomAccess ==
  Finished =>
    /\ \A s \in Sessions, k \in DOMAIN rooms :
         (/\ rooms[k].roomPass # Empty
          /\ MemberIn(ServerState, context, s, k)
          /\ ~MemberIn(before.S, before.context, s, k)) =>
            /\ cur.command = "join" /\ cur.userInitiated /\ cur.client = s
            /\ Len(cur.args) >= 2
            /\ ToLower(cur.args[1]) = k
            /\ cur.args[2] = rooms[k].roomPass
    /\ (/\ cur.command = "join" /\ cur.userInitiated /\ Len(cur.args) >= 1
        /\ ToLower(cur.args[1]) \in DOMAIN before.S.rooms
        /\ before.S.rooms[ToLower(cur.args[1])].roomPass # Empty
        /\ cur.nick \notin Occupants(before.S.rooms[ToLower(cur.args[1])])
        /\ (Len(cur.args) < 2
              \/ cur.args[2] # before.S.rooms[ToLower(cur.args[1])].roomPass)) =>
          /\ ServerState = before.S
          /\ respChan = before.chans
          /\ delivered = << <<cur.responseChan,
                              IF Len(cur.args) < 2 \/ cur.args[2] = Empty
                              THEN <<"That room is private.">>
                              ELSE <<"Wrong password.">> >> >>
    /\ \A k \in DOMAIN rooms \cap DOMAIN before.S.rooms :
         rooms[k].roomPass = before.S.rooms[k].roomPass

\* the command cur as cmdJoin, cmdCreate, cmdLeave and cmdNick read it
TargetKey == ToLower(cur.args[1])
Notice(kind) == <<kind, cur.nick>>
LastDelivered == delivered[Len(delivered)]

\* every nick of the set has a response channel, and msg went to it once
EachToldOnce(nicks, msg) ==
  \A n \in nicks :
    /\ n \in DOMAIN userResponseChan
    /\ TimesDelivered(userResponseChan[n], msg) = 1

\* the caller was sent the "Joined" reply of cmdJoin for the room it named
JoinSucceeded ==
  /\ Finished /\ cur.command = "join" /\ cur.userInitiated /\ Len(cur.args) >= 1
  /\ TargetKey \in DOMAIN before.S.rooms
  /\ \E i \in DOMAIN delivered :
       delivered[i] = <<cur.responseChan, <<"Joined", before.S.rooms[TargetKey].name,
                                            before.S.rooms[TargetKey].topic>>>>

\* C16: when join succeeds for nick N on room R, N is in R's member set and
\* not in its moderator set, userActiveRoom[N] is R's name, every occupant
\* of R, N included, was sent "N has joined the room" exactly once, and the
\* "Joined R; topic: T" reply came last; a join on an unknown room, or on a
\* room N already occupies, changes none of the maps.
JoinOutcome ==
  /\ JoinSucceeded =>
       /\ TargetKey \in DOMAIN rooms
       /\ cur.nick \in rooms[TargetKey].users
       /\ cur.nick \notin rooms[TargetKey].mods
       /\ Get(userActiveRoom, cur.nick, Empty) = rooms[TargetKey].name
       /\ EachToldOnce(Occupants(rooms[TargetKey]), Notice("has joined the room"))
       /\ LastDelivered[1] = cur.responseChan /\ LastDelivered[2][1] = "Joined"
  /\ (/\ Finished /\ cur.command = "join" /\ cur.userInitiated /\ Len(cur.args) >= 1
      /\ \/ TargetKey \notin DOMAIN before.S.rooms
         \/ cur.nick \in Occupants(before.S.rooms[TargetKey])) =>
       ServerState = before.S

\* C17: a create whose name holds only letters and digits and collides,
\* compared without case, with no room yields a room with the caller as its
\* only moderator, no member and the caller as creator, and makes it the
\* caller's active room; a create refused for its name changes none of the
\* maps.
CreateOutcome ==
  (Finished /\ cur.command = "create" /\ cur.userInitiated /\ Len(cur.args) >= 1) =>
    IF OnlyLettersDigits(cur.args[1]) /\ TargetKey \notin DOMAIN before.S.rooms
    THEN /\ TargetKey \in DOMAIN rooms
         /\ rooms[TargetKey].mods = {cur.nick}
         /\ rooms[TargetKey].users = {}
         /\ rooms[TargetKey].creater = cur.nick
         /\ cur.nick \in DOMAIN userActiveRoom
         /\ userActiveRoom[cur.nick] = cur.args[1]
    ELSE ServerState = before.S

\* C18: a leave of a caller without active room changes none of the maps
\* and tells the caller so; otherwise the caller is afterwards in neither
\* set of the room and has no userActiveRoom entry, each occupant that
\* remains was sent "<nick> has left the room[: reason]" exactly once, the
\* room is gone exactly if no occupant remains, and the caller was sent
\* "Left <room>" last.
LeaveOutcome ==
  (Finished /\ cur.command = "leave" /\ cur.userInitiated) =>
    IF cur.nick \notin DOMAIN before.S.userActiveRoom
    THEN /\ ServerState = before.S
         /\ delivered = << <<cur.responseChan, <<"You aren't in a room">>>> >>
    ELSE LET roomName == before.S.userActiveRoom[cur.nick]
             key == ToLower(roomName)
             remaining == IF key \in DOMAIN before.S.rooms
                          THEN Occupants(before.S.rooms[key]) \ {cur.nick}
                          ELSE {}
         IN /\ cur.nick \notin DOMAIN userActiveRoom
            /\ key \in DOMAIN rooms => cur.nick \notin Occupants(rooms[key])
            /\ EachToldOnce(remaining, <<"has left the room", cur.nick, cur.args>>)
            /\ (key \in DOMAIN rooms) <=> (remaining # {})
            /\ delivered # << >>
            /\ LastDelivered = <<cur.responseChan, <<"Left", roomName>>>>

\* cmdNick took the new nick: it holds letters and digits only and no
\* registered nick equals it without case
RenameSucceeded ==
  /\ Finished /\ cur.command = "nick" /\ cur.userInitiated /\ Len(cur.args) >= 1
  /\ OnlyLettersDigits(cur.args[1])
  /\ ToLower(cur.args[1]) \notin DOMAIN before.S.clients

\* C19: after a successful rename from A to B, clients, userResponseChan,
\* userActiveRoom and the sets and creator of the room hold B where they
\* held A and hold nothing for A; the room has as many occupants as before;
\* the room, the renamer included, was sent "A is now known as B"; whois B
\* finds the session and whois A finds no user.
RenameRekeysAll ==
  RenameSucceeded =>
    LET A == cur.nick
        B == cur.args[1]
        was == before.S
    IN /\ Get(clients, ToLower(B), Nil) = cur.client
       /\ Get(userResponseChan, B, Nil) = cur.responseChan
       /\ ToLower(A) # ToLower(B) => ToLower(A) \notin DOMAIN clients
       /\ A # B =>
            /\ A \notin DOMAIN userResponseChan
            /\ A \notin DOMAIN userActiveRoom
            /\ \A k \in DOMAIN rooms :
                 A \notin Occupants(rooms[k]) /\ rooms[k].creater # A
       /\ A \in DOMAIN was.userActiveRoom =>
            /\ Get(userActiveRoom, B, Nil) = was.userActiveRoom[A]
            /\ LET k == ToLower(was.userActiveRoom[A])
               IN k \in DOMAIN was.rooms =>
                    /\ k \in DOMAIN rooms
                    /\ (A \in was.rooms[k].mods) <=> (B \in rooms[k].mods)
                    /\ (A \in was.rooms[k].users) <=> (B \in rooms[k].users)
                    /\ (was.rooms[k].creater = A) <=> (rooms[k].creater = B)
                    /\ Cardinality(Occupants(rooms[k])) = Cardinality(Occupants(was.rooms[k]))
                    /\ EachToldOnce(Occupants(rooms[k]), <<"is now known as", A, B>>)
       /\ cmdWhois(ServerState, [cur EXCEPT !.args = <<B>>])
            = << Snd(cur.responseChan, <<"User", cur.client>>) >>
       /\ A # B => cmdWhois(ServerState, [cur EXCEPT !.args = <<A>>])
            = << Snd(cur.responseChan, <<"That user doesn't exist.">>) >>

\* C20: a say for a room that exists sends "<nick>: <message>" exactly once
\* to the response channel of every moderator and member of the room that
\* has one, and to nobody else, before the actor takes the next command; a
\* say for a room that does not exist sends the error to the sender and
\* nothing to anyone else.  Neither changes the maps.
SayBroadcast ==
  (Finished /\ cur.command = "say" /\ ~cur.userInitiated /\ Len(cur.args) >= 2) =>
    /\ ServerState = before.S
    /\ IF TargetKey \in DOMAIN rooms
       THEN LET heardBy == {n \in Occupants(rooms[TargetKey]) : n \in DOMAIN userResponseChan}
                said == <<"says", cur.nick, Tail(cur.args)>>
            IN /\ \A n \in heardBy : TimesDelivered(userResponseChan[n], said) = 1
               /\ \A i \in DOMAIN delivered :
                    /\ delivered[i][2] = said
                    /\ \E n \in heardBy : userResponseChan[n] = delivered[i][1]
       ELSE delivered = << <<cur.responseChan, <<"Room doesn't exist">>>> >>

\* ------------------------------------------------------------- SpecKick
\* "a" and "b" are registered.  The peer of "a" sends /quit or renames
\* itself and a third peer gives a nick that is taken or free; either peer may close its connection
\* at any moment.  The scheduler is fair to every task of the server, and
\* forces no peer to send or to hang up.
LinesKick == {Command("quit", << >>), Command("nick", <<NickC>>)}

InitKick ==
  \E r \in {Registered, InRoom}, hang \in [{1, 3} -> BOOLEAN] :
    InitFrom(r, <<1, 0, 1>>, <<LinesKick, {}, NicksGiven>>, <<hang[1], FALSE, hang[3]>>)

NextKick ==
  \/ ActorDequeue
  \/ \E s \in Sessions :
       \/ ActorSend(s)
       \/ HandlerOut(s) \/ HandlerPost(s) \/ HandlerIdRecv(s) \/ HandlerIdInterrupted(s)
       \/ HandlerLine(s) \/ HandlerKicked(s) \/ HandlerPeerGone(s) \/ HandlerDrained(s)
       \/ WriterWrite(s) \/ WriterError(s) \/ WriterClose(s)
       \/ ReaderHangup(s) \/ ReaderExit(s)

\* "for command := range server.in" takes the next command: the step of
\* ActorDequeue seen on server.in alone
ActorTakes ==
  /\ crashed = "" /\ lastResult # "dead"
  /\ todo = << >> /\ in # << >>
  /\ in' = RestCommands(in)

\* every goroutine that can run does run; a select with several ready
\* cases takes any of them
FairTasks ==
  /\ WF_in(ActorTakes)
  /\ \A s \in Sessions :
       /\ WF_vars(ActorSend(s))
       /\ WF_vars(HandlerOut(s) \/ HandlerPost(s) \/ HandlerIdInterrupted(s)
                  \/ HandlerKicked(s) \/ HandlerPeerGone(s) \/ HandlerDrained(s))
       /\ WF_vars(WriterWrite(s) \/ WriterError(s) \/ WriterClose(s))
       /\ WF_vars(ReaderExit(s))

SpecKick == InitKick /\ [][NextKick]_vars /\ FairTasks

\* the actor has closed the response channel of session s
Kicked(s) == respChan[s] = "closed"

\* the chat loop of s said goodbye and returned "Disconnected by server",
\* the client is stopped and the writer has closed the stream
KickedOut(s) ==
  /\ hpc[s] = "done" /\ exitReason[s] = "Disconnected by server"
  /\ stopped[s] /\ writer[s] = "done"

\* the handler puts an rmuser of session s into server.in
PostsRmuser(s) ==
  /\ hpc[s] = "run" /\ hq[s] # << >> /\ Head(hq[s]).op = "post"
  /\ Head(hq[s]).cmd.command = "rmuser"
  /\ in' = Append(in, Head(hq[s]).cmd)

\* C21: once the actor has closed a session's response channel, the chat
\* loop of the session eventually writes the farewell and returns
\* "Disconnected by server", the client is stopped and its stream is closed;
\* and no rmuser is posted for a session whose response channel is closed.
KickHandling ==
  /\ \A s \in Sessions : Kicked(s) ~> KickedOut(s)
  /\ [][\A s \in Sessions : Kicked(s) => ~PostsRmuser(s)]_vars

\* the peer of s is gone and client.Recv is closed while the server still
\* has s registered
Orphaned(s) ==
  /\ reader[s] = "done"
  /\ \E n \in DOMAIN clients : clients[n] = s

\* nothing of s is left: no nick and no response channel of it in the maps,
\* its nick in no room, and its three tasks have returned
CleanedUp(s) ==
  /\ \A n \in DOMAIN clients : clients[n] # s
  /\ \A n \in DOMAIN userResponseChan : userResponseChan[n] # s
  /\ \A k \in DOMAIN rooms : context[s].nick \notin Occupants(rooms[k])
  /\ hpc[s] = "done" /\ reader[s] = "done" /\ writer[s] = "done"

RmuserPosted(s) ==
  \E i \in 1..Len(posted) : posted[i].command = "rmuser" /\ posted[i].client = s

\* C22: when the peer of a registered session has disconnected, the handler
\* posts an rmuser, the actor eventually removes the session's nick from
\* clients, userResponseChan and its room, and the handler (with its drain
\* of the response channel), the reader and the writer all terminate.
DisconnectCleanup ==
  \A s \in Sessions : Orphaned(s) ~> (RmuserPosted(s) /\ CleanedUp(s))

\* ------------------------------------------------------------ SpecWriter
\* Client.send statement by statement.  The handler chain puts buffers into
\* Client.Send, rw.Write accepts any part of what it is given and may fail,
\* and the reader calls Stop when the peer closes the connection.
Buffers == {<< >>, <<"x">>, <<"y", "z">>}

Min(a, b) == IF a < b THEN a ELSE b

\* the bytes rw.Write took when it returned n, and "data = data[n:]"
Written(d, n) == SubSeq(d, 1, Min(n, Len(d)))
\* a writer that gives up the rest of a buffer after a partial write
RemainderNone(d, n) == << >>
Remainder(d, n) == SubSeq(d, Min(n, Len(d)) + 1, Len(d))

\* "client.Send <- b" in a handler of the chain
Enqueue(s) ==
  /\ crashed = ""
  /\ hpc[s] # "none"
  /\ Len(queued[s]) < MaxBuffers
  /\ \E b \in Buffers :
       IF SendClosed(s)
       THEN /\ crashed' = "send on closed channel"
            /\ UNCHANGED <<Send, queued>>
       ELSE /\ Len(Send[s]) < SendCap
            /\ Send' = [Send EXCEPT ![s] = Append(@, b)]
            /\ queued' = [queued EXCEPT ![s] = Append(@, b)]
            /\ UNCHANGED crashed
  /\ UNCHANGED <<srvVars, actorVars, context, respChan, hVars, stopVars, lockVars, data, rw,
                 rwCloses, config, ghostVars, reader, writer, peerVars, mapAccess>>

\* "for data := range client.Send" gives the next buffer
WriterRange(s) ==
  /\ crashed = ""
  /\ writer[s] = "run"
  /\ data[s] = << >>
  /\ Send[s] # << >>
  /\ data' = [data EXCEPT ![s] = Head(Send[s])]
  /\ Send' = [Send EXCEPT ![s] = Tail(@)]
  /\ UNCHANGED <<srvVars, actorVars, context, respChan, hVars, stopVars, lockVars, rw, rwCloses,
                 queued, config, ghostVars, reader, writer, peerVars, crashed, mapAccess>>

\* "n, err := client.rw.Write(data)" and what follows it in the inner loop;
\* on an error Stop("Send error"), return, and the deferred rw.Close()
WriterRwWrite(s) ==
  /\ crashed = ""
  /\ writer[s] = "run"
  /\ data[s] # << >>
  /\ \E n \in 0..(Len(data[s]) + 1), err \in BOOLEAN :
       /\ rw' = [rw EXCEPT ![s] = @ \o Written(data[s], n)]
       /\ IF err
          THEN /\ Stop(s, "Send error")
               /\ writer' = [writer EXCEPT ![s] = "done"]
               /\ rwCloses' = [rwCloses EXCEPT ![s] = @ + 1]
               /\ UNCHANGED data
          ELSE /\ data' = [data EXCEPT ![s] = Remainder(@, n)]
               /\ UNCHANGED <<stopVars, writer, rwCloses>>
  /\ UNCHANGED <<srvVars, actorVars, context, respChan, hVars, Send, lockVars, queued, config,
                 ghostVars, reader, peerVars, crashed, mapAccess>>

InitWriter == InitWith({1}, <<0, 0, 0>>, <<{}, {}, {}>>, <<TRUE, FALSE, FALSE>>)

NextWriter ==
  \E s \in Sessions :
    \/ Enqueue(s)
    \/ WriterRange(s) \/ WriterRwWrite(s) \/ WriterClose(s)
    \/ ReaderHangup(s)

SpecWriter == InitWriter /\ [][NextWriter]_vars

RECURSIVE Flatten(_)
Flatten(bufs) == IF bufs = << >> THEN << >> ELSE Head(bufs) \o Flatten(Tail(bufs))

IsPrefix(a, b) == Len(a) <= Len(b) /\ SubSeq(b, 1, Len(a)) = a

DigitNick == <<"0", "1">>
FirstChunks == {Text(Empty), Text(NickA), Text(NickUpperA), Text(DigitNick), Text(BadName)}

InitId == InitSystem({1, 2}, <<1, 1, 0>>, <<FirstChunks, FirstChunks, {}>>,
                     <<TRUE, TRUE, FALSE>>, TRUE)

NextId ==
  \/ ActorDequeue
  \/ \E s \in Sessions :
       \/ ActorSend(s)
       \/ HandlerOut(s) \/ HandlerPost(s) \/ HandlerIdRecv(s) \/ HandlerIdInterrupted(s)
       \/ HandlerKicked(s) \/ HandlerPeerGone(s) \/ HandlerDrained(s)
       \/ WriterWrite(s) \/ WriterError(s) \/ WriterClose(s)
       \/ ReaderHangup(s) \/ ReaderExit(s)

SpecId == InitId /\ [][NextId]_vars

\* the chunks the handler chain of s has taken from client.Recv
RECURSIVE ChunksOf(_, _)
ChunksOf(s, h) ==
  IF h = << >> THEN << >>
  ELSE IF Head(h)[1] = s THEN <<Head(h)[2]>> \o ChunksOf(s, Tail(h))
  ELSE ChunksOf(s, Tail(h))

\* the first chunk of s was a nick
Identified(s) ==
  LET chunks == ChunksOf(s, heard)
  IN chunks # << >> /\ chunks[1] # Empty /\ OnlyLettersDigits(chunks[1])

PostedBy(s) == SelectSeq(posted, LAMBDA c : c.client = s)

\* the handler of s puts an envelope into server.in
Posting(s) ==
  /\ Len(posted') = Len(posted) + 1
  /\ posted'[Len(posted')].client = s

\* what the handler chain returns for the first chunk, "" for a nick
ReasonFor(chunks) ==
  IF chunks = << >> THEN "Interrupted"
  ELSE IF chunks[1] = Empty THEN "No nick provided"
  ELSE IF ~OnlyLettersDigits(chunks[1]) THEN "Nick must contain only letters or numbers"
  ELSE ""

\* the chat loop of s has been entered
ChatLoopRuns(s) == respChan[s] # "none"

\* without the clause on stopped sessions
GatedByNick ==
  \A s \in Sessions :
    /\ ChatLoopRuns(s) => Identified(s)
    /\ PostedBy(s) # << >> =>
         /\ Identified(s)
         /\ PostedBy(s)[1].command = "adduser"
         /\ PostedBy(s)[1].nick = ChunksOf(s, heard)[1]
    /\ (hpc[s] = "done" /\ ~Identified(s)) =>
         /\ exitReason[s] = ReasonFor(ChunksOf(s, heard))
         /\ PostedBy(s) = << >>
         /\ ~ChatLoopRuns(s)

\* C24: the chat loop runs and adduser is posted only for a session whose
\* first chunk was a non-empty string of letters and digits and which is
\* not stopped; an empty chunk, a chunk with another character or a closed
\* client.Recv ends the chain with its exit reason and nothing is posted.
IdentificationGating ==
  /\ []GatedByNick
  /\ [][\A s \in Sessions :
          (Posting(s) /\ posted'[Len(posted')].command = "adduser") => ~stopped[s]]_vars

\* the notices with which a handler turns a command down
ErrorNotices ==
  { "Invalid command", "No command specified",
    "That nick is already taken.", "That user doesn't exist", "That user doesn't exist.",
    "You must specify a room to say something to.", "Room doesn't exist",
    "Use /create <name> [<topic> [<roompass>]]",
    "Room names can contain only letters and numbers", "That room already exists",
    "Error leaving old room", "Which room do you want to join?", "That room doesn't exist",
    "You are already in that room as a moderator", "You are already in that room",
    "That room is private.", "Wrong password.", "Error while joining room",
    "You aren't in a room", "Error leaving room",
    "What do you want to change your nick to?", "Nicks can contain only letters and numbers",
    "Try something like /me sits down", "You must be in a room to do that." }

\* the finished command answered its sender with one of them
TurnedDown ==
  /\ Finished
  /\ \E i \in DOMAIN delivered :
       /\ delivered[i][1] = cur.responseChan
       /\ delivered[i][2][1] \in ErrorNotices

LinesFlushed == {Text(NickA), Text(NickB), Command("leave", << >>),
                 Command("create", <<RoomQ>>), Command("nick", <<NickC>>)}

InitFlush == InitFrom(InRoom, <<FlushLines, 0, 0>>, <<LinesFlushed, {}, {}>>,
                      <<FALSE, FALSE, FALSE>>)

NextFlush ==
  \/ ActorDequeue
  \/ \E s \in Sessions :
       \/ ActorSend(s)
       \/ HandlerOut(s) \/ HandlerPost(s) \/ HandlerLine(s) \/ HandlerTimer(s)
       \/ RacyRead(s)
       \/ WriterWrite(s)

SpecFlush == InitFlush /\ [][NextFlush]_vars

\* the chat loop of s takes a command line in this step
CommandTaken(s) ==
  /\ Len(heard') = Len(heard) + 1
  /\ heard'[Len(heard')] = <<s, <<"/">>>>

\* the session's nick is an occupant of the room userActiveRoom names for it
OccupiesRoom(s) ==
  LET nick == context[s].nick
  IN /\ nick \in DOMAIN userActiveRoom
     /\ userActiveRoom[nick] \in DOMAIN rooms
     /\ nick \in Occupants(rooms[userActiveRoom[nick]])

\* the handler of s is left to post one say with all the buffered lines,
\* then the command, and nothing else
SayThenCommand(s) ==
  /\ Len(hq'[s]) = 3
  /\ hq'[s][1].op = "post"
  /\ hq'[s][1].cmd.command = "say" /\ hq'[s][1].cmd.client = s
  /\ hq'[s][1].cmd.args = <<userActiveRoom[context[s].nick], JoinLines(message[s])>>
  /\ hq'[s][2].op = "post"
  /\ hq'[s][2].cmd.userInitiated /\ hq'[s][2].cmd.client = s
  /\ hq'[s][3].op = "goto"

\* the actor takes the commands in the order the handlers posted them
TakenAsPosted ==
  Len(in') < Len(in) => cur' = posted[Len(posted) - Len(in')]

InitLimit ==
  \E limit \in 0..MessageLineLimit :
    InitConfigured(InRoom, <<PasteLines, 0, 0>>, <<PasteTexts, {}, {}>>,
                   <<FALSE, FALSE, FALSE>>, [MessageLineLimit |-> limit])

NextLimit ==
  \/ ActorDequeue
  \/ \E s \in Sessions :
       \/ ActorSend(s)
       \/ HandlerOut(s) \/ HandlerPost(s) \/ HandlerLine(s) \/ HandlerTimer(s)
       \/ WriterWrite(s)

SpecLimit == InitLimit /\ [][NextLimit]_vars

\* the lines of the body of a say
CountLines(body) == 1 + Cardinality({i \in 1..Len(body) : body[i] = "\n"})

\* the cursor stays within the limit, no line was stored at or beyond it,
\* and no say carries more lines than the limit
LimitKept ==
  /\ \A s \in Sessions : Len(message[s]) <= config.MessageLineLimit
  /\ crashed # "index out of range"
  /\ \A i \in 1..Len(posted) :
       posted[i].command = "say" => CountLines(posted[i].args[2]) <= config.MessageLineLimit

\* the chat loop of s takes a line of text in this step
TextTaken(s) ==
  /\ Len(heard') = Len(heard) + 1
  /\ heard'[Len(heard')][1] = s
  /\ heard'[Len(heard')][2] \notin {Empty, <<"/">>, Expired}

\* a line that finds the buffer full: the buffered lines go out as one say
\* and the line is the only one buffered
FullBufferFlushed(s) ==
  (TextTaken(s) /\ Len(message[s]) = config.MessageLineLimit) =>
    /\ message'[s] = <<heard'[Len(heard')][2]>>
    /\ message[s] # << >> =>
         /\ Len(hq'[s]) = 2
         /\ hq'[s][1].op = "post" /\ hq'[s][1].cmd.command = "say"
         /\ hq'[s][1].cmd.args = <<userActiveRoom[hnick[s]], JoinLines(message[s])>>
         /\ hq'[s][2].op = "goto"

\* C27: for every configured line limit L, 0 and 1 included, the cursor
\* stays between 0 and L, a line is only stored below index L, no say has
\* more than L lines, and a line that arrives when L lines are buffered
\* makes those lines one say and becomes the only buffered line.
LineLimitBatching ==
  /\ []LimitKept
  /\ [][\A s \in Sessions : FullBufferFlushed(s)]_vars

\* the same for the limits from 1 on
LineLimitBatchingFromOne ==
  /\ [](config.MessageLineLimit >= 1 => LimitKept)
  /\ [][config.MessageLineLimit >= 1 => \A s \in Sessions : FullBufferFlushed(s)]_vars

\* ------------------------------------------------------------------ C28
\* "a" and "b" are registered and in no room, or "a" has been in the room r
\* of "b", renamed itself to "c", left r and taken the nick "a" again; the
\* peer of "a" sends lines of text and "/leave".
Returned ==
  HandledAll(InRoom, <<Request(1, "nick", <<NickC>>, TRUE),
                       Request(1, "leave", << >>, TRUE),
                       Request(1, "nick", <<NickA>>, TRUE)>>)

LinesOutside == PasteTexts \cup {Command("leave", << >>)}

InitOutside ==
  \E r \in {Registered, Returned} :
    InitFrom(r, <<PasteLines, 0, 0>>, <<LinesOutside, {}, {}>>, <<FALSE, FALSE, FALSE>>)

NextOutside ==
  \/ ActorDequeue
  \/ \E s \in Sessions :
       \/ ActorSend(s)
       \/ HandlerOut(s) \/ HandlerPost(s) \/ HandlerLine(s) \/ HandlerTimer(s)
       \/ WriterWrite(s)

SpecOutside == InitOutside /\ [][NextOutside]_vars

Guidance == <<"You'll need to join a room before you can talk.">>

\* the chat loop of s flushes its buffer in this step: the paste timer has
\* fired or a command line has come
Flushing(s) ==
  /\ Len(heard') = Len(heard) + 1
  /\ heard'[Len(heard')] \in {<<s, Expired>>, <<s, <<"/">>>>}

\* what the handler of s is left to do holds no say and no message to the peer
NothingFlushed(s) ==
  \A i \in 1..Len(hq'[s]) :
    /\ hq'[s][i].op # "out"
    /\ hq'[s][i].op = "post" => hq'[s][i].cmd.command # "say"

\* the handler of s is left to send the guidance to its own peer, and no say
GuidanceOnly(s) ==
  /\ hq'[s] # << >>
  /\ hq'[s][1] = Out(Guidance)
  /\ \A i \in 2..Len(hq'[s]) :
       /\ hq'[s][i].op # "out"
       /\ hq'[s][i].op = "post" => hq'[s][i].cmd.command # "say"

\* the nick of s is in no room
InNoRoom(s) ==
  \A name \in DOMAIN rooms : context[s].nick \notin Occupants(rooms[name])

\* C28: a flush of an empty buffer posts nothing and sends nothing; a flush
\* of buffered lines for a session that is in no room posts no command,
\* sends the guidance to that session only and clears the buffer.
FlushOutsideRoom ==
  [][\A s \in Sessions :
       Flushing(s) =>
         /\ message[s] = << >> => NothingFlushed(s)
         /\ (message[s] # << >> /\ InNoRoom(s)) =>
              (GuidanceOnly(s) /\ message'[s] = << >>)]_vars

\* the same, for a session whose nick has no entry in userActiveRoom
FlushWithoutEntry ==
  [][\A s \in Sessions :
       Flushing(s) =>
         /\ message[s] = << >> => NothingFlushed(s)
         /\ (message[s] # << >> /\ hnick[s] \notin DOMAIN userActiveRoom) =>
              (GuidanceOnly(s) /\ message'[s] = << >>)]_vars

\* ------------------------------------------------------------------ C29
\* the envelope carries the nick its session holds
NickHeld(c) == c.nick = context[c.client].nick

\* C29: every envelope the actor takes after it has handled a rename of the
\* envelope's session carries the nick the session holds then, whatever the
\* order in which the handler read the nick and the actor applied the rename.
RenameHonored ==
  [][(Len(in') < Len(in) /\ NextCommand(in).client \in Sessions)
        => NickHeld(NextCommand(in))]_vars

\* ------------------------------------------------------------------ C30
\* the actor, handling the rmuser or quit it took last, removes the
\* registration under the key k
Removes(k) ==
  /\ k \in DOMAIN clients
  /\ k \notin DOMAIN clients'
  /\ cur'.command \in {"rmuser", "quit"}

\* C30: an rmuser or quit removes the registration of a nick only when the
\* envelope comes from the session registered under that nick; a session
\* that was refused a nick never removes the holder of that nick.
RemovalOnlyOfOwn ==
  [][\A k \in DOMAIN clients : Removes(k) => cur'.client = clients[k]]_vars

\* ------------------------------------------------------------------ C31
\* "a" and "b" are registered and no room exists; the peer of "a" renames
\* itself and creates rooms under names of every kind, the empty one
\* included, and a third peer answers the nick prompt.
LinesNamed ==
  { Command("nick", <<Empty>>), Command("nick", <<NickC>>), Command("nick", <<BadName>>),
    Command("create", <<Empty>>), Command("create", <<RoomR>>),
    Command("create", <<BadName>>) }

InitNames == InitFrom(Registered, <<NameLines, 0, 1>>, <<LinesNamed, {}, FirstChunks>>,
                      <<FALSE, FALSE, FALSE>>)

NextNames ==
  \/ ActorDequeue
  \/ \E s \in Sessions :
       \/ ActorSend(s)
       \/ HandlerOut(s) \/ HandlerPost(s) \/ HandlerIdRecv(s) \/ HandlerLine(s)
       \/ HandlerKicked(s) \/ HandlerDrained(s)
       \/ WriterWrite(s) \/ WriterClose(s) \/ ReaderExit(s)

SpecNames == InitNames /\ [][NextNames]_vars

\* a name of at least one character, all of them letters or digits
WellFormed(name) == name # Empty /\ OnlyLettersDigits(name)

\* C31: every nick registered in clients and every room name in rooms is
\* a non-empty string of letters and digits only.
WellFormedNames ==
  /\ \A k \in DOMAIN clients : WellFormed(k)
  /\ \A k \in DOMAIN rooms : WellFormed(k) /\ WellFormed(rooms[k].name)

\* the same, but for the empty name
NamesOfLettersDigits ==
  /\ \A k \in DOMAIN clients : OnlyLettersDigits(k)
  /\ \A k \in DOMAIN rooms : OnlyLettersDigits(k) /\ OnlyLettersDigits(rooms[k].name)

\* ------------------------------------------------------------------ C32
\* n is the nick a session registered in clients holds now
CurrentNick(n) ==
  /\ ToLower(n) \in DOMAIN clients
  /\ clients[ToLower(n)] \in Sessions
  /\ context[clients[ToLower(n)]].nick = n

\* the nicks the rooms hold as moderators or members
NicksInRooms == UNION {Occupants(rooms[k]) : k \in DOMAIN rooms}

\* C32: after the actor finishes a command, every key of userActiveRoom and
\* of userResponseChan and every nick in a room's moderator or member set is
\* the current nick of a session registered in clients.
NoGhostEntries ==
  ActorIdle =>
    \A n \in DOMAIN userActiveRoom \cup DOMAIN userResponseChan \cup NicksInRooms :
      CurrentNick(n)

\* the same without the keys of userActiveRoom
NoGhostElsewhere ==
  ActorIdle => \A n \in DOMAIN userResponseChan \cup NicksInRooms : CurrentNick(n)

\* ------------------------------------------------------------------ C33
\* "a" and "b" share the room r; the peer of "a" sends lines of text and may
\* close its connection at any moment.
InitLost == InitFrom(InRoom, <<LostLines, 0, 0>>, <<PasteTexts, {}, {}>>,
                     <<TRUE, FALSE, FALSE>>)

NextLost ==
  \/ ActorDequeue
  \/ \E s \in Sessions :
       \/ ActorSend(s)
       \/ HandlerOut(s) \/ HandlerPost(s) \/ HandlerLine(s) \/ HandlerTimer(s)
       \/ HandlerPeerGone(s) \/ HandlerDrained(s)
       \/ WriterWrite(s) \/ WriterError(s) \/ WriterClose(s)
       \/ ReaderHangup(s) \/ ReaderExit(s)

SpecLost == InitLost /\ [][NextLost]_vars

\* strings.Join undone: the lines of the body of a say
RECURSIVE SplitLines(_)
SplitLines(body) ==
  IF \A i \in 1..Len(body) : body[i] # "\n" THEN <<body>>
  ELSE LET i == CHOOSE j \in 1..Len(body) :
                  body[j] = "\n" /\ \A k \in 1..(j - 1) : body[k] # "\n"
       IN <<SubSeq(body, 1, i - 1)>> \o SplitLines(SubSeq(body, i + 1, Len(body)))

\* the lines of the says of a sequence of commands, in order
RECURSIVE LinesSaid(_)
LinesSaid(cmds) ==
  IF cmds = << >> THEN << >>
  ELSE (IF Head(cmds).command = "say" THEN SplitLines(Head(cmds).args[2]) ELSE << >>)
       \o LinesSaid(Tail(cmds))

\* the lines of text the chat loop of s has accepted, in order of arrival
TextHeard(s) ==
  LET mine == SelectSeq(heard, LAMBDA h : h[1] = s /\ h[2] \notin {Empty, <<"/">>, Expired})
  IN [i \in 1..Len(mine) |-> mine[i][2]]

\* the commands the handler of s has posted, and those it is about to post
PostedBy1(s) == SelectSeq(posted, LAMBDA c : c.client = s)
ToPost(s) ==
  LET posts == SelectSeq(hq[s], LAMBDA h : h.op = "post")
  IN [i \in 1..Len(posts) |-> posts[i].cmd]

\* at the top of the loop the paste timer is armed iff lines are buffered
TimerMatchesBuffer ==
  \A s \in Sessions : hpc[s] = "select" => (timer[s] <=> message[s] # << >>)

\* every accepted line is in a say, about to be in one, or buffered: once,
\* and in the order of arrival
LinesAccounted ==
  \A s \in {1} :
    TextHeard(s) = LinesSaid(PostedBy1(s)) \o LinesSaid(ToPost(s)) \o message[s]

\* the chat loop of s has returned
LoopLeft(s) == hpc[s] \in {"drain", "done"}

\* C33: at the top of every iteration of the chat loop the paste timer is
\* armed iff the buffer holds lines, and every non-empty line of text the
\* handler accepts is flushed exactly once and in arrival order, the lines
\* still buffered when the peer disconnects or the session is kicked
\* included.
NoLostLine ==
  /\ TimerMatchesBuffer
  /\ LinesAccounted
  /\ \A s \in {1} : LoopLeft(s) => TextHeard(s) = LinesSaid(PostedBy1(s))

\* the same while the chat loop runs
NoLostLineWhileRunning == TimerMatchesBuffer /\ LinesAccounted

\* ------------------------------------------------------------------ C34
\* the actor is about to send to s on a response channel it has closed
SendsOnClosed(s) == s \in Targets /\ respChan[s] = "closed"

\* the command the actor took last ended in a panic: a send on a closed
\* response channel or the close of a closed one, the only panics of the
\* command handlers
PanickedOnChannel == lastResult = "panic"

\* C34: the actor never sends on a response channel after it has closed it
\* and never closes a response channel twice, whatever the handlers post.
ResponseChannelDiscipline ==
  /\ \A s \in Sessions : ~SendsOnClosed(s)
  /\ ~PanickedOnChannel

====
